---- MODULE Spec2Model ----
(***************************************************************************)
(* Squad Builder core: the TaskQueue (pending queue + execution ledger),   *)
(* and the AgentOrchestrator that drives it (agent pool, executeTask, the  *)
(* run sequence, pause/resume and the background tick).                    *)
(*                                                                         *)
(* JavaScript Maps are modelled as sequences in insertion order: Map.set   *)
(* of an existing key replaces the value in place, Map.delete removes it.  *)
(* Date.now() is the variable now (milliseconds).                          *)
(***************************************************************************)
EXTENDS Integers, Sequences, FiniteSets, TLC

VARIABLES now, queue, executions, last, agents, store, calls, requeued, isRunning, begun,
          wfStore, wfActive, wfCalls, wfBegun, wfStopped, wfResumes

vars == <<now, queue, executions, last, agents, store, calls, requeued, isRunning, begun,
          wfStore, wfActive, wfCalls, wfBegun, wfStopped, wfResumes>>

queueVars == <<now, queue, executions, last>>
orchVars == <<agents, store, calls, requeued, isRunning, begun>>
wfVars == <<wfStore, wfActive, wfCalls, wfBegun, wfStopped, wfResumes>>

\* ---------------------------------------------------------------- bounds
\* The clock advances in steps of ClockStep ms up to MaxTime.
ClockStep == 5000
MaxTime == 5000
\* markAttempt is called at most until attempts reaches MaxAttempts.
MaxAttempts == 3
\* The execution ledger holds at most MaxExecs executions.
MaxExecs == 2
\* Ledger operations called directly stop once an execution has MaxLogs log entries.
MaxLogs == 1
\* At most MaxCalls asynchronous calls of the orchestrator are in flight.
MaxCalls == 1
\* At most MaxBegun executeTask / resumeTask calls are made through the API.
MaxBegun == 2
\* The tick dispatches a task until it has been re-enqueued MaxRequeues times.
MaxRequeues == 4
\* The agents whose history is summarised have completed at most
\* MaxCompleted and failed at most MaxFailed runs.
MaxCompleted == 3
MaxFailed == 2
\* At most MaxWorkflowRuns workflow executions are started, at most MaxResumes
\* resumeWorkflow calls made, at most MaxStops stopWorkflow calls in flight.
MaxWorkflowRuns == 1
MaxResumes == 1
MaxStops == 1

\* ------------------------------------------------------- program constants
maxRetries == 3
retryDelayMs == 5000

\* ---------------------------------------------------------------- values
Undef == -1
NoTask == "none"
TaskIds == {"t1", "t2", "t3"}
AgentIds == {"a1", "a2"}
\* Explicit priority arguments (Undef: argument omitted).
PriorityArgs == {Undef, 5}

\* The Task objects handed to the queue: t1 has priority 5, t2 priority 1,
\* t3 carries no priority field.
TaskPriority(t) == CASE t = "t1" -> 5 [] t = "t2" -> 1 [] OTHER -> Undef

Task(t) == [id |-> t, priority |-> TaskPriority(t)]

\* ------------------------------------------------------------ Map helpers
RECURSIVE IndexOfId(_, _, _)
IndexOfId(s, k, i) ==
  IF i > Len(s) THEN 0
  ELSE IF s[i].id = k THEN i ELSE IndexOfId(s, k, i + 1)

MapHas(s, k) == IndexOfId(s, k, 1) # 0

MapGet(s, k) == s[IndexOfId(s, k, 1)]

MapSet(s, e) ==
  IF MapHas(s, e.id) THEN [s EXCEPT ![IndexOfId(s, e.id, 1)] = e]
  ELSE Append(s, e)

MapDelete(s, k) == SelectSeq(s, LAMBDA e : e.id # k)

Range(s) == {s[i] : i \in 1..Len(s)}

\* ================================================================ TaskQueue

\* queue.set(task.id, {task, priority ?? task.priority ?? 0, queuedAt, 0})
enqueue(q, task, p, time) ==
  MapSet(q, [id |-> task.id,
             task |-> task,
             priority |-> IF p # Undef THEN p
                          ELSE IF task.priority # Undef THEN task.priority
                          ELSE 0,
             queuedAt |-> time,
             attempts |-> 0,
             lastAttempt |-> Undef])

dequeue(q, t) == MapDelete(q, t)

\* Mutants of the comparator: lower priority first; no tie-break on queuedAt.
BeforeLowPriorityFirst(a, b) ==
  \/ a.priority < b.priority
  \/ a.priority = b.priority /\ a.queuedAt < b.queuedAt

BeforeNoTieBreak(a, b) == a.priority > b.priority

\* The comparator of getNext: priority descending, then queuedAt ascending.
Before(a, b) ==
  \/ a.priority > b.priority
  \/ a.priority = b.priority /\ a.queuedAt < b.queuedAt

\* Array.prototype.sort is stable: an element goes in front of the first
\* already placed element it is strictly before.
RECURSIVE InsertSorted(_, _)
InsertSorted(e, s) ==
  IF s = <<>> THEN <<e>>
  ELSE IF Before(e, Head(s)) THEN <<e>> \o s
  ELSE <<Head(s)>> \o InsertSorted(e, Tail(s))

RECURSIVE SortQueue(_)
SortQueue(q) ==
  IF q = <<>> THEN <<>>
  ELSE InsertSorted(q[Len(q)], SortQueue(SubSeq(q, 1, Len(q) - 1)))

\* The predicate of sorted.find in getNext.
Eligible(qt, time) ==
  \/ qt.attempts = 0
  \/ qt.lastAttempt = Undef
  \/ time - qt.lastAttempt >= retryDelayMs

RECURSIVE FindEligible(_, _)
FindEligible(s, time) ==
  IF s = <<>> THEN NoTask
  ELSE IF Eligible(Head(s), time) THEN Head(s).id
  ELSE FindEligible(Tail(s), time)

\* Mutant: the retry-delay check on the top entry is dropped.
getNextNoRetryCheck(q, time) ==
  IF q = <<>> THEN NoTask ELSE SortQueue(q)[1].id

getNext(q, time) ==
  IF q = <<>> THEN NoTask
  ELSE LET sorted == SortQueue(q)
           next == sorted[1]
       IN IF /\ next.attempts > 0
             /\ next.lastAttempt # Undef
             /\ time - next.lastAttempt < retryDelayMs
          THEN FindEligible(sorted, time)
          ELSE next.id

updatePriority(q, t, p) ==
  IF MapHas(q, t) THEN MapSet(q, [MapGet(q, t) EXCEPT !.priority = p]) ELSE q

markAttempt(q, t, time) ==
  IF MapHas(q, t)
  THEN MapSet(q, [MapGet(q, t) EXCEPT !.attempts = @ + 1, !.lastAttempt = time])
  ELSE q

\* Mutant: off by one against maxRetries.
canRetryOffByOne(q, t) ==
  IF ~MapHas(q, t) THEN FALSE ELSE MapGet(q, t).attempts <= maxRetries

canRetry(q, t) ==
  IF ~MapHas(q, t) THEN FALSE ELSE MapGet(q, t).attempts < maxRetries

\* ------------------------------------------------------- execution ledger
\* executionId = `exec_${taskId}_${Date.now()}`
ExecId(t, time) == <<t, time>>

addLog(ex, id, level, message) ==
  IF MapHas(ex, id)
  THEN MapSet(ex, [MapGet(ex, id) EXCEPT
                     !.logs = Append(@, [level |-> level, message |-> message])])
  ELSE ex

\* Creates the running execution; the caller also dequeues the task.
startExecution(ex, t, a, time) ==
  MapSet(ex, [id |-> ExecId(t, time),
              taskId |-> t,
              agentId |-> a,
              status |-> "running",
              progress |-> 0,
              logs |-> <<>>,
              result |-> "none",
              error |-> "none",
              startedAt |-> time,
              completedAt |-> Undef])

Clamp(p) == IF p > 100 THEN 100 ELSE IF p < 0 THEN 0 ELSE p

updateProgress(ex, id, progress, message) ==
  IF MapHas(ex, id)
  THEN LET ex1 == MapSet(ex, [MapGet(ex, id) EXCEPT !.progress = Clamp(progress)])
       IN IF message # "" THEN addLog(ex1, id, "info", message) ELSE ex1
  ELSE ex

completeExecutionKeepsProgress(ex, id, result, time) ==
  IF MapHas(ex, id)
  THEN addLog(MapSet(ex, [MapGet(ex, id) EXCEPT !.status = "completed",
                                               !.result = result,
                                               !.completedAt = time]),
              id, "info", "Task completed successfully")
  ELSE ex

completeExecution(ex, id, result, time) ==
  IF MapHas(ex, id)
  THEN addLog(MapSet(ex, [MapGet(ex, id) EXCEPT !.status = "completed",
                                               !.progress = 100,
                                               !.result = result,
                                               !.completedAt = time]),
              id, "info", "Task completed successfully")
  ELSE ex

failExecution(ex, id, error, time) ==
  IF MapHas(ex, id)
  THEN addLog(MapSet(ex, [MapGet(ex, id) EXCEPT !.status = "failed",
                                               !.error = error,
                                               !.completedAt = time]),
              id, "error", "Task failed")
  ELSE ex

blockExecution(ex, id, reason) ==
  IF MapHas(ex, id)
  THEN addLog(MapSet(ex, [MapGet(ex, id) EXCEPT !.status = "blocked",
                                               !.error = reason]),
              id, "warn", "Task blocked")
  ELSE ex

\* The first execution of the task in Map iteration order, or 0.
RECURSIVE IndexOfTask(_, _, _)
IndexOfTask(ex, t, i) ==
  IF i > Len(ex) THEN 0
  ELSE IF ex[i].taskId = t THEN i ELSE IndexOfTask(ex, t, i + 1)

getExecutionByTaskId(ex, t) == IndexOfTask(ex, t, 1)

getActiveExecutions(ex) == SelectSeq(ex, LAMBDA e : e.status = "running")

ExecutingTaskIds(ex) == {e.taskId : e \in Range(getActiveExecutions(ex))}

\* ----------------------------------------------------------------- cleanup
\* The completed and failed executions, in Map order.
Terminal(ex) == SelectSeq(ex, LAMBDA e : e.status \in {"completed", "failed"})

\* The 0-based position of states[k] after the stable sort by completedAt,
\* latest first: the elements completed later, and the earlier elements
\* completed at the same time, go in front.
SortedIndex(states, k) ==
  Cardinality({j \in 1..Len(states) :
     \/ states[j].completedAt > states[k].completedAt
     \/ states[j].completedAt = states[k].completedAt /\ j < k})

cleanupKeepsOldest(ex, keepLast) ==
  LET states == Terminal(ex)
      deleted == {states[k].id : k \in {j \in 1..Len(states) :
                    Len(states) - 1 - SortedIndex(states, j) >= keepLast}}
  IN SelectSeq(ex, LAMBDA e : e.id \notin deleted)

\* Deletes states[i] for i from keepLast on.
cleanup(ex, keepLast) ==
  LET states == Terminal(ex)
      deleted == {states[k].id : k \in {j \in 1..Len(states) :
                    SortedIndex(states, j) >= keepLast}}
  IN SelectSeq(ex, LAMBDA e : e.id \notin deleted)

\* tasks: a sequence of Task snapshots [id, priority, status].  The set of
\* executing ids is computed once, before the loop.
RECURSIVE SyncLoop(_, _, _, _)
SyncLoop(q, executing, tasks, time) ==
  IF tasks = <<>> THEN q
  ELSE LET task == Head(tasks)
           q1 == IF /\ task.status = "backlog"
                    /\ ~MapHas(q, task.id)
                    /\ task.id \notin executing
                 THEN enqueue(q, [id |-> task.id, priority |-> task.priority],
                              Undef, time)
                 ELSE q
       IN SyncLoop(q1, executing, Tail(tasks), time)

syncFromTasksNotQueuedOnly(q, ex, tasks, time) == SyncLoop(q, {}, tasks, time)

syncFromTasks(q, ex, tasks, time) == SyncLoop(q, ExecutingTaskIds(ex), tasks, time)

\* ------------------------------------------------------------------ state
Last(op, t, ret) == [op |-> op, task |-> t, ret |-> ret]

Bool(b) == IF b THEN "true" ELSE "false"

\* The tasks the store holds; t3 is an id the store does not know.
StoredTasks == {"t1", "t2"}

InitStore ==
  [t \in StoredTasks |->
     [status |-> "backlog", reason |-> "none", assigned |-> "none"]]

Init ==
  /\ now = 0
  /\ queue = <<>>
  /\ executions = <<>>
  /\ last = Last("init", NoTask, "none")
  /\ agents = <<>>
  /\ store = InitStore
  /\ calls = <<>>
  /\ requeued = [t \in TaskIds |-> 0]
  /\ isRunning = FALSE
  /\ begun = 0
  /\ wfStore = <<>>
  /\ wfActive = {}
  /\ wfCalls = <<>>
  /\ wfBegun = {}
  /\ wfStopped = {}
  /\ wfResumes = 0

\* Date.now() moves on.
Advance ==
  /\ now + ClockStep <= MaxTime
  /\ now' = now + ClockStep
  /\ last' = Last("advance", NoTask, "none")
  /\ UNCHANGED <<queue, executions, orchVars, wfVars>>

\* --------------------------------------------- TaskQueue called directly
Enqueue(t, p) ==
  /\ queue' = enqueue(queue, Task(t), p, now)
  /\ last' = Last("enqueue", NoTask, "none")
  /\ UNCHANGED <<now, executions, orchVars, wfVars>>

Dequeue(t) ==
  /\ queue' = dequeue(queue, t)
  /\ last' = Last("dequeue", NoTask, IF MapHas(queue, t) THEN t ELSE NoTask)
  /\ UNCHANGED <<now, executions, orchVars, wfVars>>

GetNext ==
  /\ last' = Last("getNext", NoTask, getNext(queue, now))
  /\ UNCHANGED <<now, queue, executions, orchVars, wfVars>>

UpdatePriority(t, p) ==
  /\ queue' = updatePriority(queue, t, p)
  /\ last' = Last("updatePriority", NoTask, Bool(MapHas(queue, t)))
  /\ UNCHANGED <<now, executions, orchVars, wfVars>>

MarkAttempt(t) ==
  /\ MapHas(queue, t) => MapGet(queue, t).attempts < MaxAttempts
  /\ queue' = markAttempt(queue, t, now)
  /\ last' = Last("markAttempt", t, "none")
  /\ UNCHANGED <<now, executions, orchVars, wfVars>>

CanRetry(t) ==
  /\ last' = Last("canRetry", t, Bool(canRetry(queue, t)))
  /\ UNCHANGED <<now, queue, executions, orchVars, wfVars>>

QueueNext ==
  \/ Advance
  \/ \E t \in TaskIds, p \in PriorityArgs : Enqueue(t, p)
  \/ \E t \in TaskIds : Dequeue(t)
  \/ GetNext
  \/ \E t \in TaskIds, p \in {5} : UpdatePriority(t, p)
  \/ \E t \in TaskIds : MarkAttempt(t)
  \/ \E t \in TaskIds : CanRetry(t)

SpecQueue == Init /\ [][QueueNext]_vars

\* ------------------------------------------------ ledger called directly
\* The ledger holds at most MaxExecs executions.
StartExecution(t, a) ==
  /\ MapHas(executions, ExecId(t, now)) \/ Len(executions) < MaxExecs
  /\ executions' = startExecution(executions, t, a, now)
  /\ queue' = dequeue(queue, t)
  /\ last' = Last("startExecution", t, "none")
  /\ UNCHANGED <<now, orchVars, wfVars>>

CompleteExecution(i) ==
  /\ Len(executions[i].logs) < MaxLogs
  /\ executions' = completeExecution(executions, executions[i].id, "ok", now)
  /\ last' = Last("completeExecution", NoTask, "none")
  /\ UNCHANGED <<now, queue, orchVars, wfVars>>

FailExecution(i) ==
  /\ Len(executions[i].logs) < MaxLogs
  /\ executions' = failExecution(executions, executions[i].id, "error", now)
  /\ last' = Last("failExecution", NoTask, "none")
  /\ UNCHANGED <<now, queue, orchVars, wfVars>>

BlockExecution(i) ==
  /\ Len(executions[i].logs) < MaxLogs
  /\ executions' = blockExecution(executions, executions[i].id, "reason")
  /\ last' = Last("blockExecution", NoTask, "none")
  /\ UNCHANGED <<now, queue, orchVars, wfVars>>

\* cleanup(keepLast) returns the number of executions it deleted.
KeepLasts == {0, 1}

Cleanup(keepLast) ==
  /\ executions' = cleanup(executions, keepLast)
  /\ last' = Last("cleanup", NoTask, ToString(Len(executions) - Len(executions')))
  /\ UNCHANGED <<now, queue, orchVars, wfVars>>

\* Snapshots handed to syncFromTasks: one or two distinct tasks, each with a
\* status of the store.
Snapshot(t, st) == [id |-> t, priority |-> TaskPriority(t), status |-> st]

SyncStatuses == {"backlog", "em_progresso"}

Snapshots ==
  {<<Snapshot(t, st)>> : t \in StoredTasks, st \in SyncStatuses}
  \cup UNION {{<<Snapshot(t, st), Snapshot(u, "backlog")>> :
                   u \in StoredTasks \ {t}, st \in SyncStatuses} : t \in StoredTasks}

SyncFromTasks(tasks) ==
  /\ queue' = syncFromTasks(queue, executions, tasks, now)
  /\ last' = Last("syncFromTasks", NoTask, "none")
  /\ UNCHANGED <<now, executions, orchVars, wfVars>>

LedgerNext ==
  \/ Advance
  \/ \E t \in StoredTasks : Enqueue(t, Undef)
  \/ \E t \in StoredTasks, a \in AgentIds : StartExecution(t, a)
  \/ \E i \in 1..Len(executions) : CompleteExecution(i)
  \/ \E i \in 1..Len(executions) : FailExecution(i)
  \/ \E i \in 1..Len(executions) : BlockExecution(i)
  \/ \E tasks \in Snapshots : SyncFromTasks(tasks)
  \/ \E keepLast \in KeepLasts : Cleanup(keepLast)

SpecLedger == Init /\ [][LedgerNext]_vars

\* ======================================================== AgentOrchestrator
\* agents: the pool Map<string, AgentInstance>.  An entry holds the id, the
\* profile's ativo flag, the runtime status, the current task and the
\* metrics; averageTaskDuration is the fraction avgNum / avgDen.
\* calls: the asynchronous invocations in flight, each suspended at the
\* await named by pc.  A call keeps a reference to the AgentInstance object
\* it selected; orphan says that this object is no longer the one in the
\* pool (the id was registered again or unregistered since).

NoAgent == "none"
NoExec == <<>>

NewInstance(a, active) ==
  [id |-> a, active |-> active, status |-> "idle", currentTask |-> NoTask,
   completed |-> 0, failed |-> 0, blocked |-> 0, avgNum |-> 0, avgDen |-> 1]

AvailableWhenIdle(ag) == ag.status = "idle"

Available(ag) == ag.status = "idle" /\ ag.active

getAvailableAgents(ags) == SelectSeq(ags, Available)

\* score = -0.1 * completed + 10 * successRate - averageTaskDuration / 60000.
\* RateNum / RateDen is the first two terms, as a fraction.
RateDen(ag) == IF ag.completed + ag.failed > 0
               THEN 10 * (ag.completed + ag.failed) ELSE 10

RateNum(ag) ==
  IF ag.completed + ag.failed > 0
  THEN 100 * ag.completed - ag.completed * (ag.completed + ag.failed)
  ELSE 0 - ag.completed

\* The duration penalty applies only when averageTaskDuration > 0.
Penalty(ag) == IF ag.avgNum > 0 THEN ag.avgNum ELSE 0

\* score(x) > score(y), by cross-multiplication of the fractions.
ScoreGreater(x, y) ==
  (RateNum(x) * RateDen(y) - RateNum(y) * RateDen(x)) * 60000 * x.avgDen * y.avgDen
    > (Penalty(x) * y.avgDen - Penalty(y) * x.avgDen) * RateDen(x) * RateDen(y)

RECURSIVE BestOfLastOnTie(_, _)
BestOfLastOnTie(best, rest) ==
  IF rest = <<>> THEN best
  ELSE IF ~ScoreGreater(best, Head(rest))
       THEN BestOfLastOnTie(Head(rest), Tail(rest))
       ELSE BestOfLastOnTie(best, Tail(rest))

\* scored.sort((a, b) => b.score - a.score)[0]: the sort is stable, so the
\* winner is the first available agent no other one scores above.
RECURSIVE BestOf(_, _)
BestOf(best, rest) ==
  IF rest = <<>> THEN best
  ELSE IF ScoreGreater(Head(rest), best) THEN BestOf(Head(rest), Tail(rest))
  ELSE BestOf(best, Tail(rest))

selectAgent(ags) ==
  LET availableAgents == getAvailableAgents(ags)
  IN IF availableAgents = <<>> THEN NoAgent
     ELSE BestOf(Head(availableAgents), Tail(availableAgents)).id


\* updateAverageTaskDuration, called after tasksCompleted++ (n >= 1):
\* avg = (avg * (n - 1) + duration) / n, kept as a reduced fraction.
RECURSIVE Gcd(_, _)
Gcd(x, y) == IF y = 0 THEN x ELSE Gcd(y, x % y)

updateAverageTaskDuration(ag, duration) ==
  IF ag.completed = 0 THEN [ag EXCEPT !.avgNum = duration, !.avgDen = 1]
  ELSE LET num == ag.avgNum * (ag.completed - 1) + duration * ag.avgDen
           den == ag.avgDen * ag.completed
           g == IF num = 0 THEN den ELSE Gcd(num, den)
       IN [ag EXCEPT !.avgNum = num \div g, !.avgDen = den \div g]

\* ------------------------------------------------------- PersonaManager
\* A trigger's condition text is kept as the keywords it contains and the
\* threshold parsed from it (in tenths; 8 when the text has no number).
DefaultBlockTriggers ==
  << [uncertainty |-> TRUE, threshold |-> 8, external |-> FALSE,
      destructive |-> FALSE, cost |-> FALSE, requiresApproval |-> TRUE,
      message |-> "High uncertainty"],
     [uncertainty |-> FALSE, threshold |-> 8, external |-> TRUE,
      destructive |-> FALSE, cost |-> FALSE, requiresApproval |-> TRUE,
      message |-> "External access"],
     [uncertainty |-> FALSE, threshold |-> 8, external |-> FALSE,
      destructive |-> TRUE, cost |-> FALSE, requiresApproval |-> TRUE,
      message |-> "Could cause data loss"],
     [uncertainty |-> FALSE, threshold |-> 8, external |-> FALSE,
      destructive |-> FALSE, cost |-> TRUE, requiresApproval |-> TRUE,
      message |-> "Cost exceeds limit"] >>

Fires(trigger, ctx) ==
  \/ trigger.uncertainty /\ ctx.uncertainty # Undef
       /\ ctx.uncertainty > trigger.threshold
  \/ trigger.external /\ ctx.requiresExternalAccess
  \/ trigger.destructive /\ ctx.isDestructive
  \/ trigger.cost /\ ctx.estimatedCost # Undef /\ ctx.costLimit # Undef
       /\ ctx.estimatedCost > ctx.costLimit

\* The index of the first trigger that fires, or 0.
RECURSIVE FirstFiring(_, _, _)
FirstFiring(triggers, ctx, i) ==
  IF i > Len(triggers) THEN 0
  ELSE IF Fires(triggers[i], ctx) THEN i ELSE FirstFiring(triggers, ctx, i + 1)

checkBlockTriggers(triggers, ctx) == FirstFiring(triggers, ctx, 1)

\* The signal snapshot runTaskExecution passes (uncertainty in tenths).
RunSignals ==
  [uncertainty |-> 0, requiresExternalAccess |-> FALSE, isDestructive |-> FALSE,
   estimatedCost |-> Undef, costLimit |-> Undef]

\* ------------------------------------------------------------ call records
\* request.context of executeTask: the cost signals it may carry.
NoContext == [estimatedCost |-> Undef, costLimit |-> Undef]

CostContext == [estimatedCost |-> 100, costLimit |-> 50]

Contexts == {NoContext, CostContext}

NewCall(pc, origin, t, a, tprio) ==
  [pc |-> pc, origin |-> origin, task |-> t, agent |-> a, exec |-> NoExec,
   start |-> 0, since |-> 0, tprio |-> tprio, orphan |-> FALSE, err |-> "none",
   context |-> NoContext]

RemoveCall(cs, i) == SubSeq(cs, 1, i - 1) \o SubSeq(cs, i + 1, Len(cs))

\* The AgentInstance objects held by calls in flight for id a are no longer
\* the pool's entry once a is registered again or unregistered.
Orphaned(cs, a) ==
  [i \in 1..Len(cs) |->
     IF cs[i].agent = a /\ cs[i].exec # NoExec /\ cs[i].pc # "pStatus"
     THEN [cs[i] EXCEPT !.orphan = TRUE] ELSE cs[i]]

\* A call mutates the AgentInstance it holds; the pool sees it unless the
\* instance is orphaned.
SetIdle(ag) == [ag EXCEPT !.status = "idle", !.currentTask = NoTask]

\* ----------------------------------------------------------- pool changes
registerAgent(ags, a, active) == MapSet(ags, NewInstance(a, active))

RegisterAgent(a, active) ==
  /\ agents' = registerAgent(agents, a, active)
  /\ calls' = Orphaned(calls, a)
  /\ last' = Last("registerAgent", NoTask, a)
  /\ UNCHANGED <<now, queue, executions, store, requeued, isRunning, begun, wfVars>>

UnregisterAgent(a) ==
  /\ agents' = MapDelete(agents, a)
  /\ calls' = Orphaned(calls, a)
  /\ last' = Last("unregisterAgent", NoTask, Bool(MapHas(agents, a)))
  /\ UNCHANGED <<now, queue, executions, store, requeued, isRunning, begun, wfVars>>

\* ------------------------------------------------------------ start / stop
Start ==
  /\ ~isRunning
  /\ isRunning' = TRUE
  /\ last' = Last("start", NoTask, "none")
  /\ UNCHANGED <<now, queue, executions, agents, store, calls, requeued, begun, wfVars>>

Stop ==
  /\ isRunning
  /\ isRunning' = FALSE
  /\ last' = Last("stop", NoTask, "none")
  /\ UNCHANGED <<now, queue, executions, agents, store, calls, requeued, begun, wfVars>>

\* -------------------------------------------------------------- executeTask
\* begun counts the executeTask and resumeTask calls made so far; at most
\* MaxBegun are made, at most MaxCalls calls are in flight at a time.
MayBegin == Len(calls) < MaxCalls /\ begun < MaxBegun

\* executeTask(request) is called and suspends at supabase.getTask.
ExecuteTask(t, a, context) ==
  /\ MayBegin
  /\ calls' = Append(calls, [NewCall("getTask", "api", t, a, Undef)
                               EXCEPT !.context = context])
  /\ begun' = begun + 1
  /\ last' = Last("executeTask", t, "called")
  /\ UNCHANGED <<now, queue, executions, agents, store, requeued, isRunning, wfVars>>

\* processNextTask: with an agent available and a task returned by getNext,
\* the tick calls executeTask({taskId}) and suspends at supabase.getTask.
\* A tick that finds no agent or no task returns without any change.
ProcessNextTask ==
  /\ isRunning
  /\ Len(calls) < MaxCalls
  /\ getAvailableAgents(agents) # <<>>
  /\ getNext(queue, now) # NoTask
  /\ LET t == getNext(queue, now)
     IN /\ requeued[t] < MaxRequeues
        /\ calls' = Append(calls, NewCall("getTask", "tick", t, NoAgent,
                                          MapGet(queue, t).task.priority))
        /\ last' = Last("processNextTask", t, "called")
  /\ UNCHANGED <<now, queue, executions, agents, store, requeued, isRunning, begun, wfVars>>

\* The catch block of processNextTask, for a call made by the tick:
\* if canRetry then markAttempt and enqueue(task, task.priority).
Requeues(c, q) == c.origin = "tick" /\ canRetry(q, c.task)

CatchQueue(c, q, time) ==
  IF Requeues(c, q)
  THEN enqueue(markAttempt(q, c.task, time),
               [id |-> c.task, priority |-> c.tprio], c.tprio, time)
  ELSE q

CatchRequeued(c, q) ==
  IF Requeues(c, q) THEN [requeued EXCEPT ![c.task] = @ + 1] ELSE requeued

\* executeTask throws out of call i: the tick's catch block runs, any other
\* caller just sees the error.
Throws(i, q, error) ==
  /\ queue' = CatchQueue(calls[i], q, now)
  /\ requeued' = CatchRequeued(calls[i], q)
  /\ last' = Last("executeTask", calls[i].task,
                  IF Requeues(calls[i], q) THEN "requeued" ELSE error)

\* supabase.getTask fails (StoreError) or answers null (unknown id).
GetTaskThrows(i) ==
  /\ calls[i].pc = "getTask"
  /\ Throws(i, queue, "thrown")
  /\ calls' = RemoveCall(calls, i)
  /\ UNCHANGED <<now, executions, agents, store, isRunning, begun, wfVars>>

\* The agent of a request: agents.get(agentId) for an explicit agentId,
\* selectAgent(task) otherwise; NoAgent when that yields undefined.
ResolveAgentOrSelect(ags, agentId) ==
  IF agentId # NoAgent /\ MapHas(ags, agentId) THEN agentId ELSE selectAgent(ags)

ResolveAgent(ags, agentId) ==
  IF agentId # NoAgent
  THEN (IF MapHas(ags, agentId) THEN agentId ELSE NoAgent)
  ELSE selectAgent(ags)

GetTaskReturnsFlipDeferred(i) ==
  /\ calls[i].pc = "getTask"
  /\ calls[i].task \in DOMAIN store
  /\ LET c == calls[i]
         a == ResolveAgent(agents, c.agent)
     IN IF a = NoAgent
        THEN /\ Throws(i, queue, IF c.agent # NoAgent THEN "AgentNotFound"
                                 ELSE "NoAgentAvailable")
             /\ calls' = RemoveCall(calls, i)
             /\ UNCHANGED <<now, executions, agents, store, isRunning, begun, wfVars>>
        ELSE /\ executions' = startExecution(executions, c.task, a, now)
             /\ queue' = dequeue(queue, c.task)
             /\ calls' = [calls EXCEPT ![i] =
                            [c EXCEPT !.pc = "assign", !.agent = a,
                                      !.exec = ExecId(c.task, now)]]
             /\ last' = Last(IF c.agent = NoAgent THEN "selectAgent"
                             ELSE "executeTask", c.task, a)
             /\ UNCHANGED <<now, agents, store, requeued, isRunning, begun, wfVars>>

\* supabase.getTask answers the task: the agent is resolved; none found
\* throws, otherwise the execution starts, the agent becomes working and
\* the call suspends at supabase.assignTask.
GetTaskReturns(i) ==
  /\ calls[i].pc = "getTask"
  /\ calls[i].task \in DOMAIN store
  /\ LET c == calls[i]
         a == ResolveAgent(agents, c.agent)
     IN IF a = NoAgent
        THEN /\ Throws(i, queue, IF c.agent # NoAgent THEN "AgentNotFound"
                                 ELSE "NoAgentAvailable")
             /\ calls' = RemoveCall(calls, i)
             /\ UNCHANGED <<now, executions, agents, store, isRunning, begun, wfVars>>
        ELSE /\ executions' = startExecution(executions, c.task, a, now)
             /\ queue' = dequeue(queue, c.task)
             /\ agents' = MapSet(agents, [MapGet(agents, a) EXCEPT
                                            !.status = "working",
                                            !.currentTask = c.task])
             /\ calls' = [calls EXCEPT ![i] =
                            [c EXCEPT !.pc = "assign", !.agent = a,
                                      !.exec = ExecId(c.task, now)]]
             /\ last' = Last(IF c.agent = NoAgent THEN "selectAgent"
                             ELSE "executeTask", c.task, a)
             /\ UNCHANGED <<now, store, requeued, isRunning, begun, wfVars>>

\* supabase.assignTask fails: executeTask throws after the execution was
\* started and the agent set to working.
AssignThrows(i) ==
  /\ calls[i].pc = "assign"
  /\ Throws(i, queue, "thrown")
  /\ calls' = RemoveCall(calls, i)
  /\ UNCHANGED <<now, executions, agents, store, isRunning, begun, wfVars>>

SetTask(st, t, status, reason) ==
  IF t \in DOMAIN st
  THEN [st EXCEPT ![t].status = status, ![t].reason = reason]
  ELSE st

\* updateTaskStatus(id, status, motivo): the reason is written for
\* bloqueado, cleared for any other status.
updateTaskStatus(st, t, status, motivo) ==
  SetTask(st, t, status, IF status = "bloqueado" THEN motivo ELSE "none")

\* supabase.assignTask returns; the call suspends at the task_assigned
\* notification.
AssignReturns(i) ==
  /\ calls[i].pc = "assign"
  /\ store' = [store EXCEPT ![calls[i].task].status = "em_progresso",
                            ![calls[i].task].assigned = calls[i].agent]
  /\ calls' = [calls EXCEPT ![i].pc = "notifyAssigned"]
  /\ last' = Last("assignTask", calls[i].task, calls[i].agent)
  /\ UNCHANGED <<now, queue, executions, agents, requeued, isRunning, begun, wfVars>>

\* The notification returns (it never throws): runTaskExecution is launched
\* and suspends at its first createMensagem; executeTask returns the handle.
RunLaunched(i) ==
  /\ calls[i].pc = "notifyAssigned"
  /\ calls' = [calls EXCEPT ![i].pc = "msgStart", ![i].start = now]
  /\ last' = Last("executeTask", calls[i].task, "returned")
  /\ UNCHANGED <<now, queue, executions, agents, store, requeued, isRunning, begun, wfVars>>

\* ------------------------------------------------------- runTaskExecution
\* The catch block: failExecution, then suspend at updateTaskStatus.
Caught(i, message) ==
  /\ executions' = failExecution(executions, calls[i].exec, message, now)
  /\ calls' = [calls EXCEPT ![i].pc = "catchStatus", ![i].err = message]
  /\ last' = Last("failExecution", calls[i].task, message)

\* An await of a store call inside the try block throws.
TryPcs == {"msgStart", "blockStatus", "blockMsg", "reviewStatus", "doneMsg"}

StoreThrowsInRun(i) ==
  /\ calls[i].pc \in TryPcs
  /\ Caught(i, "store error")
  /\ UNCHANGED <<now, queue, agents, store, requeued, isRunning, begun, wfVars>>

StartMessageCreated(i) ==
  /\ calls[i].pc = "msgStart"
  /\ calls' = [calls EXCEPT ![i].pc = "notifyStarted"]
  /\ last' = Last("createMensagem", calls[i].task, "resposta")
  /\ UNCHANGED <<now, queue, executions, agents, store, requeued, isRunning, begun, wfVars>>

\* After the task_started notification: progress 10, the block triggers
\* are evaluated; an approval-required trigger blocks the execution,
\* otherwise progress goes to 30, then 50, and the run waits 2000 ms.
RunStarted(i) ==
  /\ calls[i].pc = "notifyStarted"
  /\ LET c == calls[i]
         ex1 == updateProgress(executions, c.exec, 10, "Agent initialized")
         k == checkBlockTriggers(DefaultBlockTriggers, RunSignals)
     IN IF k # 0 /\ DefaultBlockTriggers[k].requiresApproval
        THEN /\ executions' = blockExecution(ex1, c.exec, DefaultBlockTriggers[k].message)
             /\ calls' = [calls EXCEPT ![i].pc = "blockStatus",
                                       ![i].err = DefaultBlockTriggers[k].message]
             /\ last' = Last("blockExecution", c.task, DefaultBlockTriggers[k].message)
        ELSE /\ executions' =
                  updateProgress(updateProgress(ex1, c.exec, 30, "Analyzing task"),
                                 c.exec, 50, "Working on task")
             /\ calls' = [calls EXCEPT ![i].pc = "delay1", ![i].since = now]
             /\ last' = Last("updateProgress", c.task, "50")
  /\ UNCHANGED <<now, queue, agents, store, requeued, isRunning, begun, wfVars>>

BlockStatusWritten(i) ==
  /\ calls[i].pc = "blockStatus"
  /\ store' = updateTaskStatus(store, calls[i].task, "bloqueado", calls[i].err)
  /\ calls' = [calls EXCEPT ![i].pc = "blockMsg"]
  /\ last' = Last("updateTaskStatus", calls[i].task, "bloqueado")
  /\ UNCHANGED <<now, queue, executions, agents, requeued, isRunning, begun, wfVars>>

BlockMessageCreated(i) ==
  /\ calls[i].pc = "blockMsg"
  /\ calls' = [calls EXCEPT ![i].pc = "blockNotify"]
  /\ last' = Last("createMensagem", calls[i].task, "bloqueio")
  /\ UNCHANGED <<now, queue, executions, agents, store, requeued, isRunning, begun, wfVars>>

\* agent.status = 'blocked'; agent.metrics.tasksBlocked++; return.
BlockNotified(i) ==
  /\ calls[i].pc = "blockNotify"
  /\ agents' = IF calls[i].orphan THEN agents
               ELSE MapSet(agents, [MapGet(agents, calls[i].agent) EXCEPT
                                      !.status = "blocked", !.blocked = @ + 1])
  /\ calls' = RemoveCall(calls, i)
  /\ last' = Last("run", calls[i].task, "blocked")
  /\ UNCHANGED <<now, queue, executions, store, requeued, isRunning, begun, wfVars>>

\* setTimeout(resolve, ms) armed at time since fires once the clock has
\* reached since + ms: at that instant if the clock was not there yet.
TimerFires(since, ms) == IF now >= since + ms THEN now ELSE since + ms

\* delay(2000) is over: progress 80, then delay(1000).
FirstDelayOver(i) ==
  /\ calls[i].pc = "delay1"
  /\ now' = TimerFires(calls[i].since, 2000)
  /\ executions' = updateProgress(executions, calls[i].exec, 80, "Finalizing")
  /\ calls' = [calls EXCEPT ![i].pc = "delay2", ![i].since = now']
  /\ last' = Last("updateProgress", calls[i].task, "80")
  /\ UNCHANGED <<queue, agents, store, requeued, isRunning, begun, wfVars>>

\* delay(1000) is over: completeExecution, then suspend at
\* updateTaskStatus(task.id, 'review').
SecondDelayOver(i) ==
  /\ calls[i].pc = "delay2"
  /\ now' = TimerFires(calls[i].since, 1000)
  /\ executions' = completeExecution(executions, calls[i].exec, "ok", now')
  /\ calls' = [calls EXCEPT ![i].pc = "reviewStatus"]
  /\ last' = Last("completeExecution", calls[i].task, "none")
  /\ UNCHANGED <<queue, agents, store, requeued, isRunning, begun, wfVars>>

ReviewStatusWritten(i) ==
  /\ calls[i].pc = "reviewStatus"
  /\ store' = updateTaskStatus(store, calls[i].task, "review", "none")
  /\ calls' = [calls EXCEPT ![i].pc = "doneMsg"]
  /\ last' = Last("updateTaskStatus", calls[i].task, "review")
  /\ UNCHANGED <<now, queue, executions, agents, requeued, isRunning, begun, wfVars>>

DoneMessageCreated(i) ==
  /\ calls[i].pc = "doneMsg"
  /\ calls' = [calls EXCEPT ![i].pc = "doneNotify"]
  /\ last' = Last("createMensagem", calls[i].task, "entrega")
  /\ UNCHANGED <<now, queue, executions, agents, store, requeued, isRunning, begun, wfVars>>

\* agent idle, currentTask cleared, tasksCompleted++, average updated.
RunCompleted(i) ==
  /\ calls[i].pc = "doneNotify"
  /\ agents' =
       IF calls[i].orphan THEN agents
       ELSE LET ag == MapGet(agents, calls[i].agent)
            IN MapSet(agents,
                      updateAverageTaskDuration(
                        [SetIdle(ag) EXCEPT !.completed = @ + 1],
                        now - calls[i].start))
  /\ calls' = RemoveCall(calls, i)
  /\ last' = Last("run", calls[i].task, "completed")
  /\ UNCHANGED <<now, queue, executions, store, requeued, isRunning, begun, wfVars>>

\* The catch block after failExecution: updateTaskStatus, createMensagem,
\* notify, then the agent goes back to idle and tasksFailed++.
CatchStatusWritten(i) ==
  /\ calls[i].pc = "catchStatus"
  /\ store' = updateTaskStatus(store, calls[i].task, "bloqueado", calls[i].err)
  /\ calls' = [calls EXCEPT ![i].pc = "catchMsg"]
  /\ last' = Last("updateTaskStatus", calls[i].task, "bloqueado")
  /\ UNCHANGED <<now, queue, executions, agents, requeued, isRunning, begun, wfVars>>

CatchMessageCreated(i) ==
  /\ calls[i].pc = "catchMsg"
  /\ calls' = [calls EXCEPT ![i].pc = "catchNotify"]
  /\ last' = Last("createMensagem", calls[i].task, "bloqueio")
  /\ UNCHANGED <<now, queue, executions, agents, store, requeued, isRunning, begun, wfVars>>

RunFailed(i) ==
  /\ calls[i].pc = "catchNotify"
  /\ agents' = IF calls[i].orphan THEN agents
               ELSE MapSet(agents, [SetIdle(MapGet(agents, calls[i].agent))
                                      EXCEPT !.failed = @ + 1])
  /\ calls' = RemoveCall(calls, i)
  /\ last' = Last("run", calls[i].task, "failed")
  /\ UNCHANGED <<now, queue, executions, store, requeued, isRunning, begun, wfVars>>

\* A store call inside the catch block throws: the promise of the run is
\* rejected and only logged.
StoreThrowsInCatch(i) ==
  /\ calls[i].pc \in {"catchStatus", "catchMsg"}
  /\ calls' = RemoveCall(calls, i)
  /\ last' = Last("run", calls[i].task, "rejected")
  /\ UNCHANGED <<now, queue, executions, agents, store, requeued, isRunning, begun, wfVars>>

\* ---------------------------------------------------------------- pauseTask
\* Without a running execution found by getExecutionByTaskId the call
\* returns false at once; otherwise the execution is blocked and the call
\* suspends at updateTaskStatus.
PauseTask(t) ==
  /\ Len(calls) < MaxCalls
  /\ LET k == getExecutionByTaskId(executions, t)
     IN IF k = 0 \/ executions[k].status # "running"
        THEN /\ last' = Last("pauseTask", t, "false")
             /\ UNCHANGED <<executions, calls>>
        ELSE /\ executions' = blockExecution(executions, executions[k].id,
                                             "Paused by user")
             /\ calls' = Append(calls,
                                [NewCall("pStatus", "api", t, executions[k].agentId, Undef)
                                   EXCEPT !.exec = executions[k].id])
             /\ last' = Last("blockExecution", t, "Paused by user")
  /\ UNCHANGED <<now, queue, agents, store, requeued, isRunning, begun, wfVars>>

\* The status is written; the agent found under execution.agentId in the
\* pool goes back to idle; pauseTask returns true.
PauseStatusWritten(i) ==
  /\ calls[i].pc = "pStatus"
  /\ store' = updateTaskStatus(store, calls[i].task, "bloqueado", "Paused by user")
  /\ agents' = IF MapHas(agents, calls[i].agent)
               THEN MapSet(agents, SetIdle(MapGet(agents, calls[i].agent)))
               ELSE agents
  /\ calls' = RemoveCall(calls, i)
  /\ last' = Last("pauseTask", calls[i].task, "true")
  /\ UNCHANGED <<now, queue, executions, requeued, isRunning, begun, wfVars>>

PauseThrows(i) ==
  /\ calls[i].pc = "pStatus"
  /\ calls' = RemoveCall(calls, i)
  /\ last' = Last("pauseTask", calls[i].task, "thrown")
  /\ UNCHANGED <<now, queue, executions, agents, store, requeued, isRunning, begun, wfVars>>

\* --------------------------------------------------------------- resumeTask
ResumeTask(t) ==
  /\ MayBegin
  /\ calls' = Append(calls, NewCall("rGet", "resume", t, NoAgent, Undef))
  /\ begun' = begun + 1
  /\ last' = Last("resumeTask", t, "called")
  /\ UNCHANGED <<now, queue, executions, agents, store, requeued, isRunning, wfVars>>

ResumableWhenStored(st, t) == t \in DOMAIN st

\* !task || task.status !== 'bloqueado' is false.
Resumable(st, t) == t \in DOMAIN st /\ st[t].status = "bloqueado"

\* getTask returned: null or a task that is not bloqueado ends the call with
\* null; otherwise it suspends at the task_unblocked notification.
ResumeGetReturns(i) ==
  /\ calls[i].pc = "rGet"
  /\ IF Resumable(store, calls[i].task)
     THEN /\ calls' = [calls EXCEPT ![i].pc = "rNotify"]
          /\ last' = Last("resumeTask", calls[i].task, "unblocked")
     ELSE /\ calls' = RemoveCall(calls, i)
          /\ last' = Last("resumeTask", calls[i].task, "null")
  /\ UNCHANGED <<now, queue, executions, agents, store, requeued, isRunning, begun, wfVars>>

ResumeGetThrows(i) ==
  /\ calls[i].pc = "rGet"
  /\ calls' = RemoveCall(calls, i)
  /\ last' = Last("resumeTask", calls[i].task, "thrown")
  /\ UNCHANGED <<now, queue, executions, agents, store, requeued, isRunning, begun, wfVars>>

\* After the notification resumeTask calls executeTask({taskId}).
ResumeNotified(i) ==
  /\ calls[i].pc = "rNotify"
  /\ calls' = [calls EXCEPT ![i].pc = "getTask"]
  /\ last' = Last("executeTask", calls[i].task, "called")
  /\ UNCHANGED <<now, queue, executions, agents, store, requeued, isRunning, begun, wfVars>>

\* --------------------------------------------------------------- initialize
\* getActiveAgentes answers the active agents of the squad; getTasksByStatus
\* the backlog tasks, by priority descending.
StoreAgentes == <<"a1", "a2">>

StoreTaskOrder == <<"t1", "t2">>

RECURSIVE RegisterAll(_, _)
RegisterAll(ags, ids) ==
  IF ids = <<>> THEN ags
  ELSE RegisterAll(registerAgent(ags, Head(ids), TRUE), Tail(ids))

RECURSIVE OrphanedAll(_, _)
OrphanedAll(cs, ids) ==
  IF ids = <<>> THEN cs ELSE OrphanedAll(Orphaned(cs, Head(ids)), Tail(ids))

RECURSIVE BacklogTasks(_, _)
BacklogTasks(st, ids) ==
  IF ids = <<>> THEN <<>>
  ELSE IF st[Head(ids)].status = "backlog"
       THEN <<Snapshot(Head(ids), "backlog")>> \o BacklogTasks(st, Tail(ids))
       ELSE BacklogTasks(st, Tail(ids))

Initialize ==
  /\ Len(calls) < MaxCalls
  /\ calls' = Append(calls, NewCall("initAgents", "api", NoTask, NoAgent, Undef))
  /\ last' = Last("initialize", NoTask, "called")
  /\ UNCHANGED <<now, queue, executions, agents, store, requeued, isRunning, begun, wfVars>>

InitAgentsLoaded(i) ==
  /\ calls[i].pc = "initAgents"
  /\ agents' = RegisterAll(agents, StoreAgentes)
  /\ calls' = [OrphanedAll(calls, StoreAgentes) EXCEPT ![i].pc = "initTasks"]
  /\ last' = Last("registerAgent", NoTask, "all")
  /\ UNCHANGED <<now, queue, executions, store, requeued, isRunning, begun, wfVars>>

InitTasksLoaded(i) ==
  /\ calls[i].pc = "initTasks"
  /\ queue' = syncFromTasks(queue, executions, BacklogTasks(store, StoreTaskOrder), now)
  /\ calls' = RemoveCall(calls, i)
  /\ last' = Last("initialize", NoTask, "returned")
  /\ UNCHANGED <<now, executions, agents, store, requeued, isRunning, begun, wfVars>>

InitThrows(i) ==
  /\ calls[i].pc \in {"initAgents", "initTasks"}
  /\ calls' = RemoveCall(calls, i)
  /\ last' = Last("initialize", NoTask, "thrown")
  /\ UNCHANGED <<now, queue, executions, agents, store, requeued, isRunning, begun, wfVars>>

\* ------------------------------------------------------------------- Spec
CallIdx == 1..Len(calls)

\* The steps at which a suspended executeTask call or run sequence resumes.
CallSteps ==
  \/ \E i \in CallIdx : GetTaskThrows(i)
  \/ \E i \in CallIdx : GetTaskReturns(i)
  \/ \E i \in CallIdx : AssignThrows(i)
  \/ \E i \in CallIdx : AssignReturns(i)
  \/ \E i \in CallIdx : RunLaunched(i)
  \/ \E i \in CallIdx : StoreThrowsInRun(i)
  \/ \E i \in CallIdx : StartMessageCreated(i)
  \/ \E i \in CallIdx : RunStarted(i)
  \/ \E i \in CallIdx : FirstDelayOver(i)
  \/ \E i \in CallIdx : SecondDelayOver(i)
  \/ \E i \in CallIdx : ReviewStatusWritten(i)
  \/ \E i \in CallIdx : DoneMessageCreated(i)
  \/ \E i \in CallIdx : RunCompleted(i)
  \/ \E i \in CallIdx : CatchStatusWritten(i)
  \/ \E i \in CallIdx : CatchMessageCreated(i)
  \/ \E i \in CallIdx : RunFailed(i)
  \/ \E i \in CallIdx : StoreThrowsInCatch(i)

\* The task ids of the requests: a stored task and an id the store does
\* not know.
RequestTasks == {"t1", "t3"}

\* The orchestrator driven through its entry points.
Next ==
  \/ Advance
  \/ \E a \in AgentIds, active \in BOOLEAN : RegisterAgent(a, active)
  \/ \E a \in AgentIds : UnregisterAgent(a)
  \/ \E t \in RequestTasks, a \in AgentIds \cup {NoAgent} :
       ExecuteTask(t, a, NoContext)
  \/ CallSteps
  \/ \E t \in RequestTasks : PauseTask(t)
  \/ \E i \in CallIdx : PauseStatusWritten(i)
  \/ \E i \in CallIdx : PauseThrows(i)
  \/ \E t \in RequestTasks : ResumeTask(t)
  \/ \E i \in CallIdx : ResumeGetReturns(i)
  \/ \E i \in CallIdx : ResumeGetThrows(i)
  \/ \E i \in CallIdx : ResumeNotified(i)

Spec == Init /\ [][Next]_vars

\* Tasks executed on request, with or without cost signals in the request
\* context, by agents registered with an active profile.
RunNext ==
  \/ Advance
  \/ \E a \in AgentIds : RegisterAgent(a, TRUE)
  \/ \E t \in RequestTasks, a \in AgentIds \cup {NoAgent}, context \in Contexts :
       ExecuteTask(t, a, context)
  \/ CallSteps

SpecRun == Init /\ [][RunNext]_vars

\* The average durations of the summarised histories: a run takes at least
\* the 3000 ms of its two delays.
AverageDurations == {3000, 6000}

\* The pool's idle agent a after c completed and f failed runs of average
\* duration avg since it was registered.
Worked(a, c, f, avg) ==
  /\ MapHas(agents, a)
  /\ MapGet(agents, a).status = "idle"
  /\ agents' = MapSet(agents, [MapGet(agents, a) EXCEPT
                                 !.completed = c, !.failed = f,
                                 !.avgNum = IF c = 0 THEN 0 ELSE avg,
                                 !.avgDen = 1])
  /\ last' = Last("run", NoTask, a)
  /\ UNCHANGED <<now, queue, executions, store, calls, requeued, isRunning, begun, wfVars>>

\* selectAgent(task) called on the pool.
SelectAgent ==
  /\ last' = Last("selectAgent", NoTask, selectAgent(agents))
  /\ UNCHANGED <<now, queue, executions, orchVars, wfVars>>

\* Agent selection over pools of agents with a history.
SelectNext ==
  \/ \E a \in AgentIds, active \in BOOLEAN : RegisterAgent(a, active)
  \/ \E a \in AgentIds : UnregisterAgent(a)
  \/ \E a \in AgentIds, c \in 0..MaxCompleted, f \in 0..MaxFailed,
        avg \in AverageDurations : Worked(a, c, f, avg)
  \/ SelectAgent

SpecSelect == Init /\ [][SelectNext]_vars

\* The orchestrator initialized from the store and run by its background
\* tick.
TickNext ==
  \/ Advance
  \/ Initialize
  \/ \E i \in CallIdx : InitAgentsLoaded(i)
  \/ \E i \in CallIdx : InitTasksLoaded(i)
  \/ \E i \in CallIdx : InitThrows(i)
  \/ Start
  \/ Stop
  \/ ProcessNextTask
  \/ CallSteps

SpecTick == Init /\ [][TickNext]_vars


\* ========================================================== WorkflowEngine
\* wfStore: the workflow_executions rows of the store, in creation order:
\*   [id, workflow, status, current_step].
\* wfActive: the ids in the activeExecutions map.
\* wfCalls: the startWorkflow, stopWorkflow, resumeWorkflow calls and run
\*   loops in flight, each suspended at the await named by pc; idx is the
\*   loop's currentStepIndex (0-based).
\* wfBegun: the <<execution id, step id>> pairs executeStep was invoked for.
\* wfStopped: the execution ids for which stopWorkflow has returned and
\*   resumeWorkflow has not been called since.
\* wfResumes: the number of resumeWorkflow calls made.

NoStep == "none"

WorkflowExecIds == <<"e1", "e2">>

StepDef(id, type, onSuccess, onFailure, trueStep, falseStep) ==
  [id |-> id, type |-> type, onSuccess |-> onSuccess, onFailure |-> onFailure,
   trueStep |-> trueStep, falseStep |-> falseStep]

\* The workflows of the store.  "X" names no step.
\* wfSkip: steps [A(onSuccess=C), B, C].
\* wfWired: a condition with an existing trueStep and a dangling falseStep,
\*   and steps with existing and dangling onSuccess / onFailure ids.
\* wfCycle: two steps that name each other as onSuccess.
Workflows ==
  [wfSkip |->
     << StepDef("A", "agent_task", "C", NoStep, NoStep, NoStep),
        StepDef("B", "notify", NoStep, NoStep, NoStep, NoStep),
        StepDef("C", "notify", NoStep, NoStep, NoStep, NoStep) >>,
   wfWired |->
     << StepDef("K", "condition", "D", "B", "C", "X"),
        StepDef("B", "notify", "X", NoStep, NoStep, NoStep),
        StepDef("C", "notify", NoStep, "B", NoStep, NoStep),
        StepDef("D", "wait", NoStep, "X", NoStep, NoStep) >>,
   wfCycle |->
     << StepDef("P", "wait", "Q", NoStep, NoStep, NoStep),
        StepDef("Q", "wait", "P", NoStep, NoStep, NoStep) >>]

WorkflowIds == DOMAIN Workflows

\* steps.findIndex((s) => s.id === id): the 0-based index of the first
\* step with that id, or -1.
RECURSIVE FindIndexFrom(_, _, _)
FindIndexFrom(steps, id, i) ==
  IF i > Len(steps) THEN -1
  ELSE IF steps[i].id = id THEN i - 1 ELSE FindIndexFrom(steps, id, i + 1)

findIndex(steps, id) == FindIndexFrom(steps, id, 1)

\* A StepResult: success and the nextStepId a condition names.
StepResult(success, nextStepId) == [success |-> success, nextStepId |-> nextStepId]

\* ------------------------------------------------------- evaluateCondition
\* An expression is its text without blanks, a sequence of symbols: the
\* characters . = ! > < and words.  A value is [t, n, s]: its type
\* (undefined, null, boolean, number, string, object), its number in
\* hundredths (100 and 0 for true and false) and its text or, for an
\* object, its properties.
Value(t, n, s) == [t |-> t, n |-> n, s |-> s]

RECURSIVE Decimal(_)
Decimal(digits) ==
  IF digits = <<>> THEN 0
  ELSE 10 * Decimal(SubSeq(digits, 1, Len(digits) - 1))
       + (IF digits[Len(digits)] = "1" THEN 1 ELSE 2)

\* Number(text) in hundredths for a text of up to two decimals; nan for a
\* text that is no number.  The empty text is 0.
Number(text) ==
  LET dots == {k \in 1..Len(text) : text[k] = "."}
      p == CHOOSE k \in dots : TRUE
      fraction == SubSeq(text, p + 1, Len(text))
  IN IF \E k \in 1..Len(text) : text[k] \notin {"1", "2", "."}
     THEN [nan |-> TRUE, n |-> 0]
     ELSE IF dots = {} THEN [nan |-> FALSE, n |-> 100 * Decimal(text)]
     ELSE IF Cardinality(dots) > 1 \/ Len(text) = 1 \/ Len(fraction) > 2
     THEN [nan |-> TRUE, n |-> 0]
     ELSE [nan |-> FALSE,
           n |-> 100 * Decimal(SubSeq(text, 1, p - 1))
                 + (IF Len(fraction) = 1 THEN 10 ELSE 1) * Decimal(fraction)]

\* parseValue(text): true, false, null, a number, or the text itself.
parseValue(text) ==
  IF text = <<"true">> THEN Value("boolean", 100, <<>>)
  ELSE IF text = <<"false">> THEN Value("boolean", 0, <<>>)
  ELSE IF text = <<"null">> THEN Value("null", 0, <<>>)
  ELSE IF ~Number(text).nan THEN Value("number", Number(text).n, <<>>)
  ELSE Value("string", 0, text)

\* text.indexOf(pattern), 1-based; 0 when the pattern does not occur.
IndexOf(text, pattern) ==
  LET hits == {k \in 1..(Len(text) - Len(pattern) + 1) :
                 SubSeq(text, k, k + Len(pattern) - 1) = pattern}
  IN IF hits = {} THEN 0 ELSE CHOOSE k \in hits : \A j \in hits : k <= j

\* The first two elements of text.split(pattern), for a pattern that occurs.
Split(text, pattern) ==
  LET p == IndexOf(text, pattern)
      rest == SubSeq(text, p + Len(pattern), Len(text))
      q == IndexOf(rest, pattern)
  IN <<SubSeq(text, 1, p - 1), IF q = 0 THEN rest ELSE SubSeq(rest, 1, q - 1)>>

\* getNestedValue(obj, path): the parts of path.split('.') are looked up one
\* after the other; a part that is not one word names no property.
RECURSIVE getNestedValue(_, _)
getNestedValue(current, path) ==
  IF current.t # "object" THEN Value("undefined", 0, <<>>)
  ELSE LET d == IndexOf(path, <<".">>)
           part == IF d = 0 THEN path ELSE SubSeq(path, 1, d - 1)
           next == IF Len(part) = 1 /\ part[1] \in DOMAIN current.s
                   THEN current.s[part[1]] ELSE Value("undefined", 0, <<>>)
       IN IF d = 0 THEN next ELSE getNestedValue(next, SubSeq(path, d + 1, Len(path)))

\* resolveVariable(path, context)
resolveVariable(path, context) ==
  IF Len(path) >= 2 /\ SubSeq(path, 1, 2) = <<"input", ".">>
  THEN getNestedValue(Value("object", 0, context.input), SubSeq(path, 3, Len(path)))
  ELSE IF Len(path) >= 2 /\ SubSeq(path, 1, 2) = <<"results", ".">>
  THEN getNestedValue(Value("object", 0, context.stepResults), SubSeq(path, 3, Len(path)))
  ELSE LET value == getNestedValue(Value("object", 0, context.input), path)
       IN IF value.t = "undefined"
          THEN getNestedValue(Value("object", 0, context.stepResults), path)
          ELSE value

OperatorsShortFirst ==
  << <<"=", "=">>, <<"!", "=">>, <<">">>, <<"<">>, <<"=", "=", "=">>,
     <<"!", "=", "=">>, <<">", "=">>, <<"<", "=">> >>

\* const operators = ['===', '!==', '==', '!=', '>=', '<=', '>', '<']
Operators ==
  << <<"=", "=", "=">>, <<"!", "=", "=">>, <<"=", "=">>, <<"!", "=">>,
     <<">", "=">>, <<"<", "=">>, <<">">>, <<"<">> >>

\* The switch of evaluateCondition: strict equality, or the comparison of
\* Number(left) and Number(right), false when either is NaN.
Compare(op, left, right) ==
  LET same == /\ left.t = right.t
              /\ left.t # "object"
              /\ left.n = right.n
              /\ left.s = right.s
      numeric == left.t \in {"number", "boolean", "null"}
                 /\ right.t \in {"number", "boolean", "null"}
  IN CASE op \in {<<"=", "=", "=">>, <<"=", "=">>} -> same
       [] op \in {<<"!", "=", "=">>, <<"!", "=">>} -> ~same
       [] op = <<">">> -> numeric /\ left.n > right.n
       [] op = <<"<">> -> numeric /\ left.n < right.n
       [] op = <<">", "=">> -> numeric /\ left.n >= right.n
       [] op = <<"<", "=">> -> numeric /\ left.n <= right.n

\* evaluateCondition(expression, context): the .exists suffix, then
\* ' contains ' (the word contains between blanks is one symbol), then the
\* first operator of the list that occurs in the text, then truthiness.
evaluateCondition(expression, context) ==
  LET n == Len(expression)
      found == {k \in 1..Len(Operators) : IndexOf(expression, Operators[k]) # 0}
  IN IF n >= 2 /\ SubSeq(expression, n - 1, n) = <<".", "exists">>
     THEN LET p == IndexOf(expression, <<".", "exists">>)
              varName == SubSeq(expression, 1, p - 1) \o SubSeq(expression, p + 2, n)
          IN resolveVariable(varName, context).t \notin {"undefined", "null"}
     ELSE IF IndexOf(expression, <<"contains">>) # 0
     THEN LET parts == Split(expression, <<"contains">>)
              variable == resolveVariable(parts[1], context)
          IN variable.t = "string"
             /\ (parts[2] = <<>> \/ IndexOf(variable.s, parts[2]) # 0)
     ELSE IF found # {}
     THEN LET op == Operators[CHOOSE k \in found : \A j \in found : k <= j]
              parts == Split(expression, op)
          IN Compare(op, resolveVariable(parts[1], context), parseValue(parts[2]))
     ELSE LET value == resolveVariable(expression, context)
          IN CASE value.t \in {"undefined", "null"} -> FALSE
               [] value.t \in {"boolean", "number"} -> value.n # 0
               [] OTHER -> TRUE

\* ------------------------------------------------------- executeCondition
\* The contexts a condition is evaluated in: input {a: 1 or 2, name: "xy"}
\* and step results {test: {success: true or false}}.
ConditionContexts ==
  {[input |-> [a |-> Value("number", n, <<>>), name |-> Value("string", 0, <<"x", "y">>)],
    stepResults |-> [test |-> Value("object", 0, [success |-> Value("boolean", b, <<>>)])]] :
     n \in {100, 200}, b \in {0, 100}}

\* The check of the condition step of the code-review template:
\* 'results.test.success == true'.
ScenarioCheck == <<"results", ".", "test", ".", "success", "=", "=", "true">>

ConditionConfig(check, trueStep, falseStep) ==
  [check |-> check, trueStep |-> trueStep, falseStep |-> falseStep]

executeConditionFailsWhenFalse(config, context) ==
  IF evaluateCondition(config.check, context)
  THEN StepResult(TRUE, config.trueStep)
  ELSE StepResult(FALSE, NoStep)

\* executeCondition(config, context): evaluateCondition does not throw on a
\* check that is a string, so the catch block is not entered.
executeCondition(config, context) ==
  StepResult(TRUE, IF evaluateCondition(config.check, context)
                   THEN config.trueStep ELSE config.falseStep)

\* The StepResults executeStep can return for a step, by its type; a
\* condition step has the check of the code-review template.
StepResults(step) ==
  CASE step.type = "condition" ->
         {executeCondition(ConditionConfig(ScenarioCheck, step.trueStep, step.falseStep),
                           context) : context \in ConditionContexts}
    [] step.type \in {"agent_task", "notify"} ->
         {StepResult(TRUE, NoStep), StepResult(FALSE, NoStep)}
    [] step.type \in {"parallel", "wait"} -> {StepResult(TRUE, NoStep)}
    [] OTHER -> {StepResult(FALSE, NoStep)}

\* Control transfer after a step: failed says the workflow is failed,
\* otherwise idx is the next currentStepIndex.
Transfer(failed, idx) == [failed |-> failed, idx |-> idx]

AfterStepOnSuccessFirst(steps, idx, result) ==
  LET step == steps[idx + 1]
  IN IF ~result.success
     THEN IF step.onFailure # NoStep /\ findIndex(steps, step.onFailure) >= 0
          THEN Transfer(FALSE, findIndex(steps, step.onFailure))
          ELSE Transfer(TRUE, idx)
     ELSE IF step.onSuccess # NoStep /\ findIndex(steps, step.onSuccess) >= 0
     THEN Transfer(FALSE, findIndex(steps, step.onSuccess))
     ELSE IF result.nextStepId # NoStep /\ findIndex(steps, result.nextStepId) >= 0
     THEN Transfer(FALSE, findIndex(steps, result.nextStepId))
     ELSE Transfer(FALSE, idx + 1)

AfterStepFailureAbsorbed(steps, idx, result) ==
  LET step == steps[idx + 1]
  IN IF ~result.success /\ step.onFailure # NoStep
        /\ findIndex(steps, step.onFailure) >= 0
     THEN Transfer(FALSE, findIndex(steps, step.onFailure))
     ELSE IF result.nextStepId # NoStep /\ findIndex(steps, result.nextStepId) >= 0
     THEN Transfer(FALSE, findIndex(steps, result.nextStepId))
     ELSE IF step.onSuccess # NoStep /\ findIndex(steps, step.onSuccess) >= 0
     THEN Transfer(FALSE, findIndex(steps, step.onSuccess))
     ELSE Transfer(FALSE, idx + 1)

AfterStep(steps, idx, result) ==
  LET step == steps[idx + 1]
  IN IF ~result.success
     THEN IF step.onFailure # NoStep /\ findIndex(steps, step.onFailure) >= 0
          THEN Transfer(FALSE, findIndex(steps, step.onFailure))
          ELSE Transfer(TRUE, idx)
     ELSE IF result.nextStepId # NoStep /\ findIndex(steps, result.nextStepId) >= 0
     THEN Transfer(FALSE, findIndex(steps, result.nextStepId))
     ELSE IF step.onSuccess # NoStep /\ findIndex(steps, step.onSuccess) >= 0
     THEN Transfer(FALSE, findIndex(steps, step.onSuccess))
     ELSE Transfer(FALSE, idx + 1)

\* The head of the while loop, run without suspension: past the last step
\* the loop leaves to completeExecution; an execution that is not active
\* makes it return; otherwise it suspends at updateWorkflowExecution.
LoopPc(steps, idx, exec, active) ==
  IF idx >= Len(steps) THEN "complete"
  ELSE IF exec \notin active THEN "return"
  ELSE "update"

\* The run loop of call i goes on at index idx, by the loop head.
LoopGoesOn(i, idx, active) ==
  LET c == wfCalls[i]
      pc == LoopPc(Workflows[c.workflow], idx, c.exec, active)
  IN wfCalls' = IF pc = "return" THEN RemoveCall(wfCalls, i)
                ELSE [wfCalls EXCEPT ![i].pc = pc, ![i].idx = idx]

RowOf(rows, id) == MapGet(rows, id)

SetRow(rows, id, field, value) ==
  IF MapHas(rows, id)
  THEN MapSet(rows, [MapGet(rows, id) EXCEPT ![field] = value])
  ELSE rows

InFlight(pcs) == Cardinality({i \in 1..Len(wfCalls) : wfCalls[i].pc \in pcs})

WfCall(pc, exec, workflow, idx) ==
  [pc |-> pc, exec |-> exec, workflow |-> workflow, idx |-> idx]

WfUnchanged == UNCHANGED <<now, queue, executions, orchVars>>

\* --------------------------------------------------------- startWorkflow
StartWorkflow(w) ==
  /\ Len(wfStore) + InFlight({"create"}) < MaxWorkflowRuns
  /\ wfCalls' = Append(wfCalls, WfCall("create", "none", w, 0))
  /\ last' = Last("startWorkflow", "none", "called")
  /\ UNCHANGED <<wfStore, wfActive, wfBegun, wfStopped, wfResumes>>
  /\ WfUnchanged

\* createWorkflowExecution returns the row: it is put into the active map
\* and runWorkflow runs up to its first await.
CreateReturns(i) ==
  /\ wfCalls[i].pc = "create"
  /\ LET id == WorkflowExecIds[Len(wfStore) + 1]
     IN /\ wfStore' = Append(wfStore, [id |-> id, workflow |-> wfCalls[i].workflow,
                                       status |-> "running", current_step |-> 0])
        /\ wfActive' = wfActive \cup {id}
        /\ LET pc == LoopPc(Workflows[wfCalls[i].workflow], 0, id, wfActive')
           IN wfCalls' = [wfCalls EXCEPT ![i].pc = pc, ![i].exec = id]
        /\ last' = Last("startWorkflow", id, "running")
  /\ UNCHANGED <<wfBegun, wfStopped, wfResumes>>
  /\ WfUnchanged

CreateThrows(i) ==
  /\ wfCalls[i].pc = "create"
  /\ wfCalls' = RemoveCall(wfCalls, i)
  /\ last' = Last("startWorkflow", "none", "thrown")
  /\ UNCHANGED <<wfStore, wfActive, wfBegun, wfStopped, wfResumes>>
  /\ WfUnchanged

UpdateReturnsOneBased(i) ==
  /\ wfCalls[i].pc = "update"
  /\ LET c == wfCalls[i]
         step == Workflows[c.workflow][c.idx + 1]
     IN /\ wfStore' = SetRow(wfStore, c.exec, "current_step", c.idx + 1)
        /\ wfBegun' = wfBegun \cup {<<c.exec, step.id>>}
        /\ wfCalls' = [wfCalls EXCEPT ![i].pc = "step"]
        /\ last' = Last("executeStep", c.exec, step.id)
  /\ UNCHANGED <<wfActive, wfStopped, wfResumes>>
  /\ WfUnchanged

\* ----------------------------------------------------------- runWorkflow
\* updateWorkflowExecution(current_step) returned: executeStep is invoked.
UpdateReturns(i) ==
  /\ wfCalls[i].pc = "update"
  /\ LET c == wfCalls[i]
         step == Workflows[c.workflow][c.idx + 1]
     IN /\ wfStore' = SetRow(wfStore, c.exec, "current_step", c.idx)
        /\ wfBegun' = wfBegun \cup {<<c.exec, step.id>>}
        /\ wfCalls' = [wfCalls EXCEPT ![i].pc = "step"]
        /\ last' = Last("executeStep", c.exec, step.id)
  /\ UNCHANGED <<wfActive, wfStopped, wfResumes>>
  /\ WfUnchanged

\* A store call inside the try block throws: the catch block suspends at
\* failExecution.
ThrowsInLoop(i) ==
  /\ wfCalls[i].pc \in {"update", "complete", "fail"}
  /\ wfCalls' = [wfCalls EXCEPT ![i].pc = "failCaught"]
  /\ last' = Last("runWorkflow", wfCalls[i].exec, "caught")
  /\ UNCHANGED <<wfStore, wfActive, wfBegun, wfStopped, wfResumes>>
  /\ WfUnchanged

\* executeStep returned result: the control transfer, then the loop head.
StepReturnsWith(i, result) ==
  /\ wfCalls[i].pc = "step"
  /\ LET c == wfCalls[i]
         after == AfterStep(Workflows[c.workflow], c.idx, result)
     IN /\ IF after.failed
           THEN wfCalls' = [wfCalls EXCEPT ![i].pc = "fail"]
           ELSE LoopGoesOn(i, after.idx, wfActive)
        /\ last' = Last("stepResult", c.exec, Bool(result.success))
  /\ UNCHANGED <<wfStore, wfActive, wfBegun, wfStopped, wfResumes>>
  /\ WfUnchanged

StepReturns(i) ==
  /\ wfCalls[i].pc = "step"
  /\ \E result \in StepResults(Workflows[wfCalls[i].workflow][wfCalls[i].idx + 1]) :
       StepReturnsWith(i, result)

\* completeExecution: the status is written, the execution leaves the
\* active map.
CompleteWritten(i) ==
  /\ wfCalls[i].pc = "complete"
  /\ wfStore' = SetRow(wfStore, wfCalls[i].exec, "status", "completed")
  /\ wfActive' = wfActive \ {wfCalls[i].exec}
  /\ wfCalls' = RemoveCall(wfCalls, i)
  /\ last' = Last("runWorkflow", wfCalls[i].exec, "completed")
  /\ UNCHANGED <<wfBegun, wfStopped, wfResumes>>
  /\ WfUnchanged

\* failExecution, called in the try block or in the catch block.
FailWritten(i) ==
  /\ wfCalls[i].pc \in {"fail", "failCaught"}
  /\ wfStore' = SetRow(wfStore, wfCalls[i].exec, "status", "failed")
  /\ wfActive' = wfActive \ {wfCalls[i].exec}
  /\ wfCalls' = RemoveCall(wfCalls, i)
  /\ last' = Last("runWorkflow", wfCalls[i].exec, "failed")
  /\ UNCHANGED <<wfBegun, wfStopped, wfResumes>>
  /\ WfUnchanged

\* failExecution throws in the catch block: the loop's promise is rejected.
FailThrows(i) ==
  /\ wfCalls[i].pc = "failCaught"
  /\ wfCalls' = RemoveCall(wfCalls, i)
  /\ last' = Last("runWorkflow", wfCalls[i].exec, "rejected")
  /\ UNCHANGED <<wfStore, wfActive, wfBegun, wfStopped, wfResumes>>
  /\ WfUnchanged

\* ---------------------------------------------------------- stopWorkflow
\* An execution that is not active makes the call return null at once;
\* otherwise it suspends at updateWorkflowExecution(status paused).
StopWorkflow(e) ==
  /\ InFlight({"stopUpdate"}) < MaxStops
  /\ IF e \in wfActive
     THEN /\ wfCalls' = Append(wfCalls, WfCall("stopUpdate", e, "none", 0))
          /\ last' = Last("stopWorkflow", e, "called")
     ELSE /\ wfCalls' = wfCalls
          /\ last' = Last("stopWorkflow", e, "null")
  /\ UNCHANGED <<wfStore, wfActive, wfBegun, wfStopped, wfResumes>>
  /\ WfUnchanged

\* The status is written, the execution leaves the active map, and
\* stopWorkflow returns.
StopReturns(i) ==
  /\ wfCalls[i].pc = "stopUpdate"
  /\ wfStore' = SetRow(wfStore, wfCalls[i].exec, "status", "paused")
  /\ wfActive' = wfActive \ {wfCalls[i].exec}
  /\ wfStopped' = wfStopped \cup {wfCalls[i].exec}
  /\ wfCalls' = RemoveCall(wfCalls, i)
  /\ last' = Last("stopWorkflow", wfCalls[i].exec, "paused")
  /\ UNCHANGED <<wfBegun, wfResumes>>
  /\ WfUnchanged

StopThrows(i) ==
  /\ wfCalls[i].pc = "stopUpdate"
  /\ wfCalls' = RemoveCall(wfCalls, i)
  /\ last' = Last("stopWorkflow", wfCalls[i].exec, "thrown")
  /\ UNCHANGED <<wfStore, wfActive, wfBegun, wfStopped, wfResumes>>
  /\ WfUnchanged

\* -------------------------------------------------------- resumeWorkflow
\* The call suspends at getWorkflowExecution.
ResumeWorkflow(e) ==
  /\ wfResumes < MaxResumes
  /\ wfResumes' = wfResumes + 1
  /\ wfCalls' = Append(wfCalls, WfCall("rGetExec", e, "none", 0))
  /\ wfStopped' = wfStopped \ {e}
  /\ last' = Last("resumeWorkflow", e, "called")
  /\ UNCHANGED <<wfStore, wfActive, wfBegun>>
  /\ WfUnchanged

\* getWorkflowExecution returned: null is returned unless the row exists
\* with status paused; the call keeps the row it read.
ResumeGetExecReturns(i) ==
  /\ wfCalls[i].pc = "rGetExec"
  /\ LET e == wfCalls[i].exec
     IN IF MapHas(wfStore, e) /\ RowOf(wfStore, e).status = "paused"
        THEN /\ wfCalls' = [wfCalls EXCEPT ![i].pc = "rGetWorkflow",
                                           ![i].workflow = RowOf(wfStore, e).workflow,
                                           ![i].idx = RowOf(wfStore, e).current_step]
             /\ last' = Last("resumeWorkflow", e, "paused")
        ELSE /\ wfCalls' = RemoveCall(wfCalls, i)
             /\ last' = Last("resumeWorkflow", e, "null")
  /\ UNCHANGED <<wfStore, wfActive, wfBegun, wfStopped, wfResumes>>
  /\ WfUnchanged

\* getWorkflow returned the workflow: the call suspends at
\* updateWorkflowExecution(status running).
ResumeGetWorkflowReturns(i) ==
  /\ wfCalls[i].pc = "rGetWorkflow"
  /\ wfCalls' = [wfCalls EXCEPT ![i].pc = "rUpdate"]
  /\ last' = Last("resumeWorkflow", wfCalls[i].exec, "found")
  /\ UNCHANGED <<wfStore, wfActive, wfBegun, wfStopped, wfResumes>>
  /\ WfUnchanged

\* The status is written, the execution enters the active map and
\* runWorkflow runs from the row's current_step up to its first await.
ResumeUpdateReturns(i) ==
  /\ wfCalls[i].pc = "rUpdate"
  /\ wfStore' = SetRow(wfStore, wfCalls[i].exec, "status", "running")
  /\ wfActive' = wfActive \cup {wfCalls[i].exec}
  /\ LoopGoesOn(i, wfCalls[i].idx, wfActive')
  /\ last' = Last("resumeWorkflow", wfCalls[i].exec, "running")
  /\ UNCHANGED <<wfBegun, wfStopped, wfResumes>>
  /\ WfUnchanged

ResumeThrows(i) ==
  /\ wfCalls[i].pc \in {"rGetExec", "rGetWorkflow", "rUpdate"}
  /\ wfCalls' = RemoveCall(wfCalls, i)
  /\ last' = Last("resumeWorkflow", wfCalls[i].exec, "thrown")
  /\ UNCHANGED <<wfStore, wfActive, wfBegun, wfStopped, wfResumes>>
  /\ WfUnchanged

WfCallIdx == 1..Len(wfCalls)

\* The awaited call of the engine's call i is answered.
WfCallStep(i) ==
  /\ i \in WfCallIdx
  /\
    \/ CreateReturns(i)
    \/ CreateThrows(i)
    \/ UpdateReturns(i)
    \/ ThrowsInLoop(i)
    \/ StepReturns(i)
    \/ CompleteWritten(i)
    \/ FailWritten(i)
    \/ FailThrows(i)
    \/ StopReturns(i)
    \/ StopThrows(i)
    \/ ResumeGetExecReturns(i)
    \/ ResumeGetWorkflowReturns(i)
    \/ ResumeUpdateReturns(i)
    \/ ResumeThrows(i)

WfCallSteps == \E i \in WfCallIdx : WfCallStep(i)

WorkflowNext ==
  \/ \E w \in WorkflowIds : StartWorkflow(w)
  \/ \E e \in Range(WorkflowExecIds) : StopWorkflow(e)
  \/ \E e \in Range(WorkflowExecIds) : ResumeWorkflow(e)
  \/ WfCallSteps

SpecWorkflow == Init /\ [][WorkflowNext]_vars

\* Runs of the workflows whose steps are agent tasks, notifications and
\* waits, where every awaited call of the engine is answered: a step, a
\* store call.
LoopsNext ==
  \/ \E w \in {"wfSkip", "wfCycle"} : StartWorkflow(w)
  \/ \E e \in Range(WorkflowExecIds) : StopWorkflow(e)
  \/ WfCallSteps

SpecLoops ==
  /\ Init
  /\ [][LoopsNext]_vars
  /\ \A i \in 1..(MaxWorkflowRuns + MaxStops) : WF_vars(WfCallStep(i))

\* ------------------------------------------------------- executeAgentTask
\* An agent_task step in flight is an entry of wfCalls:
\*   [pc, task, exec, start, since, timeout]
\* with exec the executionId that executeTask returned, start the time the
\* polling began and since the time the pending delay(2000) was set.
StepTimeouts == {4000, 6000}

\* executeAgentTask(config, context): without context.input.taskId the step
\* succeeds at once; with one it calls orchestrator.executeTask and suspends.
AgentStep(t, a, timeout) ==
  /\ Len(wfCalls) = 0
  /\ IF t = NoTask
     THEN /\ last' = Last("executeAgentTask", NoTask, "success")
          /\ UNCHANGED <<calls, begun, wfCalls>>
     ELSE /\ MayBegin
          /\ calls' = Append(calls, NewCall("getTask", "step", t, a, Undef))
          /\ begun' = begun + 1
          /\ wfCalls' = Append(wfCalls, [pc |-> "executeTask", task |-> t, exec |-> NoExec,
                                         start |-> 0, since |-> 0, timeout |-> timeout])
          /\ last' = Last("executeTask", t, "called")
  /\ UNCHANGED <<now, queue, executions, agents, store, requeued, isRunning>>
  /\ UNCHANGED <<wfStore, wfActive, wfBegun, wfStopped, wfResumes>>

\* The executeTask call of the step: still in flight before the run is
\* launched, resolved once it is, rejected when it is gone.
StepCalls == {j \in 1..Len(calls) : calls[j].origin = "step"}

ExecuteTaskSettled(i) ==
  /\ wfCalls[i].pc = "executeTask"
  /\ \A j \in StepCalls : calls[j].pc = "msgStart"

\* The step returns: outcome is success, failure, blocked (success with the
\* blocked flag), timeout (failure) or error (failure from the catch).
StepOutcome(i, outcome) ==
  /\ wfCalls' = RemoveCall(wfCalls, i)
  /\ last' = Last("executeAgentTask", wfCalls[i].task, outcome)

\* One pass of the polling loop at time `time`, for a loop begun at start
\* with the execution id exec.
Poll(i, exec, start, time) ==
  LET c == wfCalls[i]
      k == getExecutionByTaskId(executions, c.task)
  IN IF ~(time - start < c.timeout) \/ k = 0 THEN StepOutcome(i, "timeout")
     ELSE IF executions[k].status = "completed" THEN StepOutcome(i, "success")
     ELSE IF executions[k].status = "failed" THEN StepOutcome(i, "failure")
     ELSE IF executions[k].status = "blocked" THEN StepOutcome(i, "blocked")
     ELSE /\ wfCalls' = [wfCalls EXCEPT ![i].pc = "delay", ![i].exec = exec,
                                        ![i].start = start, ![i].since = time]
          /\ last' = Last("getTaskProgress", c.task, executions[k].status)

\* executeTask settled: rejected, the catch block makes the step fail;
\* resolved, the polling loop starts.
ExecuteTaskAnswered(i) ==
  /\ ExecuteTaskSettled(i)
  /\ IF StepCalls = {} THEN StepOutcome(i, "error")
     ELSE Poll(i, calls[CHOOSE j \in StepCalls : TRUE].exec, now, now)
  /\ UNCHANGED <<now, queue, executions, orchVars>>
  /\ UNCHANGED <<wfStore, wfActive, wfBegun, wfStopped, wfResumes>>

\* The deadlines of the timers pending in the run sequences and in the step.
RunDeadlines ==
  {calls[j].since + (IF calls[j].pc = "delay1" THEN 2000 ELSE 1000) :
     j \in {k \in 1..Len(calls) : calls[k].pc \in {"delay1", "delay2"}}}

PollDeadlines ==
  {wfCalls[i].since + 2000 : i \in {k \in 1..Len(wfCalls) : wfCalls[k].pc = "delay"}}

\* delay(2000) of the polling loop is over; timers fire in deadline order.
PollDelayOver(i) ==
  /\ wfCalls[i].pc = "delay"
  /\ \A d \in RunDeadlines : wfCalls[i].since + 2000 <= d
  /\ now' = TimerFires(wfCalls[i].since, 2000)
  /\ Poll(i, wfCalls[i].exec, wfCalls[i].start, now')
  /\ UNCHANGED <<queue, executions, orchVars>>
  /\ UNCHANGED <<wfStore, wfActive, wfBegun, wfStopped, wfResumes>>

\* An agent_task step run against the orchestrator; the continuation of a
\* settled executeTask runs before anything else, and a timer of a run fires
\* only if no timer of the step is due earlier.
AgentStepNext ==
  \/ \E a \in AgentIds : RegisterAgent(a, TRUE)
  \/ \E t \in {"t1"}, a \in AgentIds : ExecuteTask(t, a, NoContext)
  \/ \E t \in {"t1", NoTask}, a \in {"a1", NoAgent}, timeout \in StepTimeouts :
       AgentStep(t, a, timeout)
  \/ \E i \in WfCallIdx : ExecuteTaskAnswered(i)
  \/ \E i \in WfCallIdx : PollDelayOver(i)
  \/ /\ \A i \in WfCallIdx : ~ExecuteTaskSettled(i)
     /\ \A d \in RunDeadlines, p \in PollDeadlines : d <= p
     /\ CallSteps

SpecAgentStep == Init /\ [][AgentStepNext]_vars

\* ---------------------------------------------------------- executeNotify
\* A message is a sequence of parts: literal text, or a token {{p1.p2...}}
\* given by its path <<p1, p2, ...>>.
Text(s) == [lit |-> TRUE, path |-> s]

Token(path) == [lit |-> FALSE, path |-> path]

\* message.replace(`{{...}}`, value): a string pattern replaces its first
\* occurrence only.
replace(message, pattern, value) ==
  LET hits == {k \in 1..Len(message) : message[k] = Token(pattern)}
  IN IF hits = {} THEN message
     ELSE [message EXCEPT ![CHOOSE k \in hits : \A j \in hits : k <= j] = Text(value)]

\* The two loops of executeNotify: {{key}} for the entries of context.input,
\* then {{results.key}} for the entries of context.stepResults, whose value
\* is written as JSON.
RECURSIVE Interpolate(_, _, _)
Interpolate(message, input, stepResults) ==
  IF DOMAIN input # {}
  THEN LET key == CHOOSE k \in DOMAIN input : TRUE
       IN Interpolate(replace(message, <<key>>, <<input[key]>>),
                      [k \in DOMAIN input \ {key} |-> input[k]], stepResults)
  ELSE IF DOMAIN stepResults # {}
  THEN LET key == CHOOSE k \in DOMAIN stepResults : TRUE
       IN Interpolate(replace(message, <<"results", key>>, <<"JSON", key>>),
                      input, [k \in DOMAIN stepResults \ {key} |-> stepResults[k]])
  ELSE message

\* ------------------------------------------------- the steps on their own
\* The condition and notify steps handed to the engine.
\* The steps of the code-review template.
CodeReviewSteps ==
  << StepDef("analyze", "agent_task", "test", "notify_failure", NoStep, NoStep),
     StepDef("test", "agent_task", "check_results", "notify_failure", NoStep, NoStep),
     StepDef("check_results", "condition", NoStep, NoStep, "approve", "notify_failure"),
     StepDef("approve", "notify", NoStep, NoStep, NoStep, NoStep),
     StepDef("notify_failure", "notify", NoStep, NoStep, NoStep, NoStep) >>

\* The condition steps: each is a workflow's steps and the 0-based index of
\* the condition among them.
ConditionSteps ==
  {[steps |-> steps, idx |-> idx - 1] :
     <<steps, idx>> \in {<<Workflows.wfWired, 1>>, <<CodeReviewSteps, 3>>}}

Symbols == {"a", "1", "2", "true", ".", "=", "!", ">", "<"}

MaxSymbols == 4

Expressions ==
  UNION {[1..n -> Symbols] : n \in 1..MaxSymbols}
  \cup {ScenarioCheck,
        <<"input", ".", "a", ".", "exists">>, <<"input", ".", "b", ".", "exists">>,
        <<"input", ".", "name", "contains", "x">>, <<"input", ".", "name", "contains", "z">>}

MessageParts ==
  {Text(<<"Task">>), Token(<<"input", "taskTitle">>), Token(<<"taskTitle">>),
   Token(<<"results", "generate", "report">>), Token(<<"results", "generate">>)}

Messages == {<<p>> : p \in MessageParts} \cup {<<p, q>> : p, q \in MessageParts}

NotifyContexts ==
  {[input |-> i, stepResults |-> r] :
     i \in {<<>>, [taskTitle |-> "Fix login"]},
     r \in {<<>>, [generate |-> [report |-> "All done"]]}}

PendingSteps ==
  {[pc |-> "condition", check |-> check, context |-> context,
    steps |-> at.steps, idx |-> at.idx] :
     check \in Expressions, context \in ConditionContexts, at \in ConditionSteps}
  \cup {[pc |-> "notify", message |-> message, discord |-> discord, context |-> context] :
          message \in Messages, discord \in BOOLEAN, context \in NotifyContexts}

\* The engine with one step about to be executed.
InitSteps ==
  /\ now = 0
  /\ queue = <<>>
  /\ executions = <<>>
  /\ last = Last("init", NoTask, "none")
  /\ agents = <<>>
  /\ store = InitStore
  /\ calls = <<>>
  /\ requeued = [t \in TaskIds |-> 0]
  /\ isRunning = FALSE
  /\ begun = 0
  /\ wfStore = <<>>
  /\ wfActive = {}
  /\ wfCalls \in {<<step>> : step \in PendingSteps}
  /\ wfBegun = {}
  /\ wfStopped = {}
  /\ wfResumes = 0

\* executeStep for the condition step at index idx of steps, and the
\* control transfer runWorkflow makes of its result.
ConditionStep(i) ==
  /\ wfCalls[i].pc = "condition"
  /\ LET c == wfCalls[i]
         step == c.steps[c.idx + 1]
         result == executeCondition(ConditionConfig(c.check, step.trueStep, step.falseStep),
                                    c.context)
         after == AfterStep(c.steps, c.idx, result)
     IN last' = Last("executeCondition", NoTask,
                     [success |-> result.success, nextStepId |-> result.nextStepId,
                      result |-> evaluateCondition(c.check, c.context),
                      failed |-> after.failed, next |-> after.idx,
                      check |-> c.check, context |-> c.context,
                      steps |-> c.steps, idx |-> c.idx])
  /\ wfCalls' = RemoveCall(wfCalls, i)
  /\ UNCHANGED <<now, queue, executions, orchVars>>
  /\ UNCHANGED <<wfStore, wfActive, wfBegun, wfStopped, wfResumes>>

\* executeNotify(config, context): the message is interpolated; for the
\* discord channel with a target the step suspends at
\* sendDiscordNotification, otherwise it succeeds.
NotifyStep(i) ==
  /\ wfCalls[i].pc = "notify"
  /\ LET c == wfCalls[i]
         sent == Interpolate(c.message, c.context.input, c.context.stepResults)
     IN IF c.discord
        THEN /\ wfCalls' = [wfCalls EXCEPT ![i] = [pc |-> "send", message |-> sent]]
             /\ last' = Last("sendDiscordNotification", NoTask,
                             [success |-> TRUE, message |-> sent])
        ELSE /\ wfCalls' = RemoveCall(wfCalls, i)
             /\ last' = Last("executeNotify", NoTask,
                             [success |-> TRUE, message |-> sent])
  /\ UNCHANGED <<now, queue, executions, orchVars>>
  /\ UNCHANGED <<wfStore, wfActive, wfBegun, wfStopped, wfResumes>>

\* sendDiscordNotification answered (ok) or failed or threw (~ok).
NotifySent(i, ok) ==
  /\ wfCalls[i].pc = "send"
  /\ wfCalls' = RemoveCall(wfCalls, i)
  /\ last' = Last("executeNotify", NoTask, [success |-> ok, message |-> wfCalls[i].message])
  /\ UNCHANGED <<now, queue, executions, orchVars>>
  /\ UNCHANGED <<wfStore, wfActive, wfBegun, wfStopped, wfResumes>>

StepsNext ==
  \/ \E i \in WfCallIdx : ConditionStep(i)
  \/ \E i \in WfCallIdx : NotifyStep(i)
  \/ \E i \in WfCallIdx, ok \in BOOLEAN : NotifySent(i, ok)

SpecSteps == InitSteps /\ [][StepsNext]_vars

\* ------------------------------------------------- calls in flight together
\* At most MaxPair executeTask calls and run sequences are in flight.
MaxPair == 2

\* executeTask(request) called while another call may be in flight.
ExecuteTaskBeside(t, a) ==
  /\ Len(calls) < MaxPair
  /\ begun < MaxBegun
  /\ calls' = Append(calls, NewCall("getTask", "api", t, a, Undef))
  /\ begun' = begun + 1
  /\ last' = Last("executeTask", t, "called")
  /\ UNCHANGED <<now, queue, executions, agents, store, requeued, isRunning, wfVars>>

\* The event loop runs the timer with the earliest deadline first: a step
\* that moves the clock moves it to a deadline no later than any pending one.
TimersInOrder == now' = now \/ \A d \in RunDeadlines : now' <= d

\* The pool is filled before the first request is made.
PoolFilled(a) ==
  /\ begun = 0
  /\ ~MapHas(agents, a)
  /\ RegisterAgent(a, TRUE)

\* Requests with and without an explicit agent id, served side by side.
PairNext ==
  \/ \E a \in AgentIds : PoolFilled(a)
  \/ \E t \in StoredTasks, a \in AgentIds \cup {NoAgent} : ExecuteTaskBeside(t, a)
  \/ CallSteps /\ TimersInOrder

SpecPair == Init /\ [][PairNext]_vars

\* Requests without an explicit agent id, served side by side.
AutoNext ==
  \/ \E a \in AgentIds : PoolFilled(a)
  \/ \E t \in StoredTasks : ExecuteTaskBeside(t, NoAgent)
  \/ CallSteps /\ TimersInOrder

SpecAuto == Init /\ [][AutoNext]_vars

\* ------------------------------------------------- every call is answered
\* Requests for task t1 served one at a time by the agent a1, registered
\* before the first request; every collaborator call in flight returns or
\* throws and every timer fires.
LiveNext ==
  \/ PoolFilled("a1")
  \/ \E a \in {"a1", NoAgent} : ExecuteTask("t1", a, NoContext)
  \/ CallSteps

SpecLive == Init /\ [][LiveNext]_vars /\ WF_vars(CallSteps)

\* ------------------------------------------ a run of the code-review template
\* The run loop on the steps of the template, with the context it carries:
\* context.stepResults[step.id] is the output of the step's result.  The
\* field succeeded of a call keeps the ids of the steps whose result had
\* success true.

MaxReviewRuns == 2

Text1(s) == Value("string", 0, <<s>>)

\* The input of startWorkflow: none, or one that names a task.
ReviewInputs == {<<>>, [taskId |-> Text1("t1")]}

ReviewCall(pc, exec, idx, context, succeeded) ==
  [pc |-> pc, exec |-> exec, workflow |-> "code-review", idx |-> idx,
   context |-> context, succeeded |-> succeeded]

Outcome(success, nextStepId, output) ==
  [success |-> success, nextStepId |-> nextStepId, output |-> output]

\* executeAgentTask: without a taskId in the input the action is recorded;
\* with one, the task is executed and polled until it is completed, failed
\* or blocked, or the poll times out or executeTask throws (no output).
executeAgentTask(context) ==
  IF "taskId" \in DOMAIN context.input
  THEN {Outcome(TRUE, NoStep, Value("object", 0,
                  [executionId |-> Text1("exec"), status |-> Text1("completed")])),
        Outcome(FALSE, NoStep, Value("object", 0,
                  [executionId |-> Text1("exec"), status |-> Text1("failed")])),
        Outcome(TRUE, NoStep, Value("object", 0,
                  [executionId |-> Text1("exec"), status |-> Text1("blocked"),
                   blocked |-> Value("boolean", 100, <<>>)])),
        Outcome(FALSE, NoStep, Value("undefined", 0, <<>>))}
  ELSE {Outcome(TRUE, NoStep, Value("object", 0,
                  [action |-> Text1("action"), message |-> Text1("Action recorded")]))}

\* executeStep(step, context) for the steps of the template: the condition
\* is evaluated in the context of the run; the notify steps have channel
\* discord and no target, so nothing is sent and the result is a success.
executeStep(step, context) ==
  CASE step.type = "agent_task" -> executeAgentTask(context)
    [] step.type = "condition" ->
         LET result == executeCondition(
                         ConditionConfig(ScenarioCheck, step.trueStep, step.falseStep),
                         context)
         IN {Outcome(result.success, result.nextStepId,
                     Value("object", 0,
                       [result |-> Value("boolean",
                                     IF evaluateCondition(ScenarioCheck, context)
                                     THEN 100 ELSE 0, <<>>)]))}
    [] step.type = "notify" ->
         {Outcome(TRUE, NoStep, Value("object", 0, [channel |-> Text1("discord")]))}

\* startWorkflow(template, input)
StartReview(input) ==
  /\ Len(wfStore) + InFlight({"create"}) < MaxReviewRuns
  /\ wfCalls' = Append(wfCalls,
                  ReviewCall("create", "none", 0,
                             [input |-> input, stepResults |-> <<>>], {}))
  /\ last' = Last("startWorkflow", "none", "called")
  /\ UNCHANGED <<wfStore, wfActive, wfBegun, wfStopped, wfResumes>>
  /\ WfUnchanged

\* createWorkflowExecution returned the row.
ReviewCreated(i) ==
  /\ wfCalls[i].pc = "create"
  /\ LET id == WorkflowExecIds[Len(wfStore) + 1]
     IN /\ wfStore' = Append(wfStore, [id |-> id, workflow |-> "code-review",
                                       status |-> "running", current_step |-> 0])
        /\ wfActive' = wfActive \cup {id}
        /\ wfCalls' = [wfCalls EXCEPT ![i].pc = LoopPc(CodeReviewSteps, 0, id, wfActive'),
                                      ![i].exec = id]
        /\ last' = Last("startWorkflow", id, "running")
  /\ UNCHANGED <<wfBegun, wfStopped, wfResumes>>
  /\ WfUnchanged

\* updateWorkflowExecution(current_step) returned: executeStep is invoked.
ReviewStepBegun(i) ==
  /\ wfCalls[i].pc = "update"
  /\ LET c == wfCalls[i]
         step == CodeReviewSteps[c.idx + 1]
     IN /\ wfStore' = SetRow(wfStore, c.exec, "current_step", c.idx)
        /\ wfBegun' = wfBegun \cup {<<c.exec, step.id>>}
        /\ wfCalls' = [wfCalls EXCEPT ![i].pc = "step"]
        /\ last' = Last("executeStep", c.exec, step.id)
  /\ UNCHANGED <<wfActive, wfStopped, wfResumes>>
  /\ WfUnchanged

\* executeStep returned: the output is stored in the context, then the
\* control transfer and the loop head.
ReviewStepReturns(i) ==
  /\ wfCalls[i].pc = "step"
  /\ LET c == wfCalls[i]
         step == CodeReviewSteps[c.idx + 1]
     IN \E r \in executeStep(step, c.context) :
          LET after == AfterStep(CodeReviewSteps, c.idx, StepResult(r.success, r.nextStepId))
              stepResults == [k \in DOMAIN c.context.stepResults \cup {step.id} |->
                                IF k = step.id THEN r.output ELSE c.context.stepResults[k]]
              pc == IF after.failed THEN "fail"
                    ELSE LoopPc(CodeReviewSteps, after.idx, c.exec, wfActive)
          IN /\ wfCalls' =
                  IF pc = "return" THEN RemoveCall(wfCalls, i)
                  ELSE [wfCalls EXCEPT
                          ![i].pc = pc,
                          ![i].idx = after.idx,
                          ![i].context = [c.context EXCEPT !.stepResults = stepResults],
                          ![i].succeeded = IF r.success THEN @ \cup {step.id} ELSE @]
             /\ last' = Last("stepResult", c.exec, Bool(r.success))
  /\ UNCHANGED <<wfStore, wfActive, wfBegun, wfStopped, wfResumes>>
  /\ WfUnchanged

ReviewCallSteps ==
  \E i \in WfCallIdx :
    \/ ReviewCreated(i)
    \/ CreateThrows(i)
    \/ ReviewStepBegun(i)
    \/ ThrowsInLoop(i)
    \/ ReviewStepReturns(i)
    \/ CompleteWritten(i)
    \/ FailWritten(i)
    \/ FailThrows(i)

ReviewNext ==
  \/ \E input \in ReviewInputs : StartReview(input)
  \/ ReviewCallSteps

SpecReview == Init /\ [][ReviewNext]_vars

\* ================================================================== claims

\* An entry may be tried: never attempted, or the retry delay has elapsed.
RetryEligible(e) == e.attempts = 0 \/ now - e.lastAttempt >= retryDelayMs

\* e comes strictly ahead of f: higher priority, or equal priority and
\* enqueued earlier.
Ahead(e, f) ==
  \/ e.priority > f.priority
  \/ e.priority = f.priority /\ e.queuedAt < f.queuedAt

QueueIdx == 1..Len(queue)

\* C3: while a task id stays in the pending queue the attempts count of its
\* entry never decreases, whatever operation is applied (enqueue of an id
\* already queued included).
C3_AttemptsNeverDecrease ==
  [][\A t \in TaskIds :
       (MapHas(queue, t) /\ MapHas(queue', t))
         => MapGet(queue', t).attempts >= MapGet(queue, t).attempts]_vars

\* C5: when getNext() has answered and two queued entries are both
\* retry-eligible with priorities p1 > p2, the answer is a task, it is not
\* the p2 task, and with only these two entries queued it is the p1 task.
C5_HigherPriorityFirst ==
  last.op = "getNext" =>
    \A i \in QueueIdx, j \in QueueIdx :
      (/\ RetryEligible(queue[i])
       /\ RetryEligible(queue[j])
       /\ queue[i].priority > queue[j].priority)
      => /\ last.ret # NoTask
         /\ last.ret # queue[j].id
         /\ Len(queue) = 2 => last.ret = queue[i].id

\* C5 witness: getNext() answered the p1 task although the p2 task was put
\* into the queue first; both are eligible.
C5_Witness ==
  /\ last.op = "getNext"
  /\ \E i \in QueueIdx, j \in QueueIdx :
       /\ j < i
       /\ RetryEligible(queue[i]) /\ RetryEligible(queue[j])
       /\ queue[i].priority > queue[j].priority
       /\ last.ret = queue[i].id

\* C6: when getNext() has answered and two eligible entries have the same
\* priority and enqueue times t1 < t2, the answer is a task, it is not the
\* one enqueued at t2, and with only these two queued it is the t1 task.
C6_FifoAmongEqualPriority ==
  last.op = "getNext" =>
    \A i \in QueueIdx, j \in QueueIdx :
      (/\ RetryEligible(queue[i])
       /\ RetryEligible(queue[j])
       /\ queue[i].priority = queue[j].priority
       /\ queue[i].queuedAt < queue[j].queuedAt)
      => /\ last.ret # NoTask
         /\ last.ret # queue[j].id
         /\ Len(queue) = 2 => last.ret = queue[i].id

\* C6 witness: two eligible entries of equal priority, the older one later
\* in Map order (it was the other one that was enqueued again), and getNext()
\* answered the older one.
C6_Witness ==
  /\ last.op = "getNext"
  /\ \E i \in QueueIdx, j \in QueueIdx :
       /\ j < i
       /\ RetryEligible(queue[i]) /\ RetryEligible(queue[j])
       /\ queue[i].priority = queue[j].priority
       /\ queue[i].queuedAt < queue[j].queuedAt
       /\ last.ret = queue[i].id

\* C7: getNext() answers nothing exactly when no entry is retry-eligible;
\* otherwise it answers an eligible entry such that no eligible entry comes
\* strictly ahead of it in (priority descending, enqueue time ascending)
\* order.  In particular it never answers an entry with attempts > 0 whose
\* last attempt is less than retryDelayMs ago.
C7_FirstEligible ==
  last.op = "getNext" =>
    LET elig == {i \in QueueIdx : RetryEligible(queue[i])}
    IN IF elig = {} THEN last.ret = NoTask
       ELSE \E i \in elig :
              /\ last.ret = queue[i].id
              /\ \A j \in elig : ~Ahead(queue[j], queue[i])

\* C7 witness: the entry ahead of all others is not yet eligible, two other
\* entries are, and getNext() answered the one of them that is ahead.
C7_Witness ==
  /\ last.op = "getNext"
  /\ Len(queue) = 3
  /\ \E i \in QueueIdx, j \in QueueIdx, k \in QueueIdx :
       /\ ~RetryEligible(queue[i])
       /\ Ahead(queue[i], queue[j]) /\ Ahead(queue[j], queue[k])
       /\ RetryEligible(queue[j]) /\ RetryEligible(queue[k])
       /\ last.ret = queue[j].id

\* C9: canRetry(taskId) on a queued task answers true exactly when its
\* attempts < maxRetries; markAttempt(taskId) on a queued task raises its
\* attempts by exactly 1 and sets its lastAttempt to the current time.
C9_RetryAccounting ==
  [][/\ (last'.op = "canRetry" /\ MapHas(queue', last'.task))
          => (last'.ret = "true"
                <=> MapGet(queue', last'.task).attempts < maxRetries)
     /\ (last'.op = "markAttempt" /\ MapHas(queue, last'.task))
          => /\ MapHas(queue', last'.task)
             /\ MapGet(queue', last'.task).attempts
                  = MapGet(queue, last'.task).attempts + 1
             /\ MapGet(queue', last'.task).lastAttempt = now']_vars

\* C9 witness: after three markAttempt calls, at a later time than the
\* enqueue, canRetry answered false.
C9_Witness ==
  /\ last.op = "canRetry"
  /\ MapHas(queue, last.task)
  /\ MapGet(queue, last.task).attempts = maxRetries
  /\ MapGet(queue, last.task).lastAttempt > MapGet(queue, last.task).queuedAt
  /\ last.ret = "false"

\* C4: no task id is at the same time in the pending queue and the subject
\* of a running execution.
C4_QueuedNotExecuting ==
  \A t \in TaskIds : ~(MapHas(queue, t) /\ t \in ExecutingTaskIds(executions))

RunningFor(t) ==
  {i \in 1..Len(executions) :
     executions[i].taskId = t /\ executions[i].status = "running"}

\* C8: after startExecution(taskId, agentId) has returned, taskId is not in
\* the pending queue and exactly one running execution exists for taskId.
C8_StartExecutionPost ==
  last.op = "startExecution" =>
    /\ ~MapHas(queue, last.task)
    /\ Cardinality(RunningFor(last.task)) = 1

\* C1: each task id has at most one execution with status running in the
\* ledger, whatever executeTask, pauseTask and resumeTask calls were made.
C1_OneRunningPerTask ==
  \A t \in TaskIds : Cardinality(RunningFor(t)) <= 1

\* C2: the background tick re-enqueues a task whose dispatch keeps throwing
\* at most maxRetries times.
C2_RequeuedAtMostMaxRetries ==
  \A t \in TaskIds : requeued[t] <= maxRetries

\* C10: in every reachable pool state selectAgent returns nothing or the id
\* of a pooled agent whose status is idle and whose profile is active.
C10_SelectAgentIdleActive ==
  LET a == selectAgent(agents)
  IN a = NoAgent
     \/ \E i \in 1..Len(agents) :
          /\ agents[i].id = a
          /\ agents[i].status = "idle"
          /\ agents[i].active

\* executeTask has just resolved its agent with selectAgent, which passed
\* over an earlier pool entry that was working or inactive.
C10_Witness ==
  /\ last.op = "selectAgent"
  /\ Len(agents) = 2
  /\ agents[2].id = last.ret
  /\ agents[1].status # "idle" \/ ~agents[1].active

\* C11: when executeTask, with an explicit agentId that is not registered,
\* resumes from getTask with the task, it fails with AgentNotFound and ends
\* there, leaving the store, the queue, the ledger and the agents unchanged.
C11_UnregisteredAgentFails ==
  [][\A i \in CallIdx :
       (/\ GetTaskReturns(i)
        /\ calls[i].agent # NoAgent
        /\ ~MapHas(agents, calls[i].agent))
       => /\ last' = Last("executeTask", calls[i].task, "AgentNotFound")
          /\ calls' = RemoveCall(calls, i)
          /\ UNCHANGED <<store, queue, executions, agents>>]_vars

\* executeTask has just failed with AgentNotFound while another agent of
\* the pool was available.
C11_Witness ==
  /\ last.op = "executeTask"
  /\ last.ret = "AgentNotFound"
  /\ getAvailableAgents(agents) # <<>>

\* C12: the execution of a run whose estimated cost (100) exceeds its cost
\* limit (50), by an agent whose profile has the approval-required trigger
\* cost_exceeds_limit, never reaches completed.
C12_CostOverLimitNeverCompletes ==
  \A i \in CallIdx :
    (/\ calls[i].exec # NoExec
     /\ calls[i].context.estimatedCost > calls[i].context.costLimit
     /\ checkBlockTriggers(DefaultBlockTriggers,
                           [RunSignals EXCEPT
                              !.estimatedCost = calls[i].context.estimatedCost,
                              !.costLimit = calls[i].context.costLimit]) # 0)
    => MapGet(executions, calls[i].exec).status # "completed"

C14_RunFailedPost ==
  [][\A i \in CallIdx :
       (RunFailed(i) \/ StoreThrowsInCatch(i)) =>
         LET c == calls[i]
             e == MapGet(executions', c.exec)
         IN /\ e.status = "failed"
            /\ e.error = c.err
            /\ store'[c.task].status = "bloqueado"
            /\ store'[c.task].reason = c.err
            /\ ~c.orphan =>
                 LET ag == MapGet(agents', c.agent)
                 IN /\ ag.status = "idle"
                    /\ ag.currentTask = NoTask
                    /\ ag.failed = MapGet(agents, c.agent).failed + 1]_vars

\* C15: pauseTask(taskId) returns false only when the task has no execution
\* with status running.
C15_PauseFalseOnlyWithoutRunning ==
  (last.op = "pauseTask" /\ last.ret = "false") => RunningFor(last.task) = {}

\* C16: when getTask answers resumeTask, the call goes on to the
\* task_unblocked notification and executeTask only if the stored task
\* status is bloqueado; for a missing task or any other status it returns
\* null and ends, leaving the store, the ledger, the queue and the agents
\* unchanged.
C16_ResumeOnlyWhenBlocked ==
  [][\A i \in CallIdx :
       ResumeGetReturns(i) =>
         LET t == calls[i].task
         IN IF t \in DOMAIN store /\ store[t].status = "bloqueado"
            THEN calls'[i].pc = "rNotify"
            ELSE /\ last' = Last("resumeTask", t, "null")
                 /\ calls' = RemoveCall(calls, i)
                 /\ UNCHANGED <<store, executions, queue, agents>>]_vars

\* resumeTask has just returned null for a stored task that is in review,
\* while an agent was available to run it.
C16_Witness ==
  /\ last = Last("resumeTask", "t1", "null")
  /\ store["t1"].status = "review"
  /\ getAvailableAgents(agents) # <<>>

\* The score -0.1 * completed + 10 * successRate - averageDuration / 60000
\* of an agent is ScoreNum / (60000 * ScoreScale), with successRate =
\* completed / (completed + failed), 0 without history.
History(ag) == ag.completed + ag.failed

ScoreScale(ag) == ag.avgDen * (IF History(ag) > 0 THEN History(ag) ELSE 1)

ScoreNum(ag) ==
  IF History(ag) > 0
  THEN 600000 * ag.completed * ag.avgDen
         - 6000 * ag.completed * ag.avgDen * History(ag)
         - ag.avgNum * History(ag)
  ELSE 0 - 6000 * ag.completed * ag.avgDen - ag.avgNum

Outscores(x, y) == ScoreNum(x) * ScoreScale(y) > ScoreNum(y) * ScoreScale(x)

IdleActive == {i \in 1..Len(agents) : agents[i].status = "idle" /\ agents[i].active}

\* C17: selectAgent returns the idle active agent of highest score, the first
\* in pool order among those of equal score, and nothing when no agent is
\* idle and active.
C17_SelectAgentBestScore ==
  IF IdleActive = {} THEN selectAgent(agents) = NoAgent
  ELSE \E k \in IdleActive :
         /\ agents[k].id = selectAgent(agents)
         /\ \A j \in IdleActive :
              /\ ~Outscores(agents[j], agents[k])
              /\ j < k => Outscores(agents[k], agents[j])

\* selectAgent has just returned the second pool entry, an agent with more
\* completed runs and with failures, over an idle active first entry that
\* has a history too.
C17_Witness ==
  /\ last.op = "selectAgent"
  /\ Len(agents) = 2
  /\ agents[2].id = last.ret
  /\ agents[2].completed > agents[1].completed
  /\ agents[2].failed > 0
  /\ agents[1].status = "idle" /\ agents[1].active /\ agents[1].completed > 0


\* id names a step of the workflow.
NamesStep(steps, id) == \E k \in 1..Len(steps) : steps[k].id = id

\* The 0-based index of the step named id.
IndexOfStep(steps, id) == (CHOOSE k \in 1..Len(steps) : steps[k].id = id) - 1

\* Call i is a run loop going on (at its update or about to complete) at
\* index idx after the step.
GoesOnAt(i, idx) ==
  /\ Len(wfCalls') = Len(wfCalls)
  /\ wfCalls'[i].idx = idx
  /\ wfCalls'[i].pc = IF idx < Len(Workflows[wfCalls[i].workflow])
                      THEN "update" ELSE "complete"

\* Call i is a run loop that returned because the execution was stopped.
ReturnsStopped(i) ==
  /\ wfCalls[i].exec \notin wfActive
  /\ wfCalls' = RemoveCall(wfCalls, i)

\* The run loops suspended at executeStep.
Stepping == {i \in WfCallIdx : wfCalls[i].pc = "step"}

\* The step a loop begins is the one at its index, and beginning it leaves
\* the index as it is.
LoopBeginsStepAtIndex ==
  [][\A i \in WfCallIdx :
       UpdateReturns(i) =>
         /\ wfCalls'[i].idx = wfCalls[i].idx
         /\ wfCalls'[i].pc = "step"
         /\ wfBegun' = wfBegun \cup
              {<<wfCalls[i].exec, Workflows[wfCalls[i].workflow][wfCalls[i].idx + 1].id>>}]_vars

\* C18: when a step succeeds, the loop goes on at the step named by the
\* returned next-step id if that id names a step of the workflow, else at the
\* step named by the step's onSuccess, else at the next index (or it returns,
\* the execution having been stopped); the step it begins next is the one at
\* that index; and in the workflow [A(onSuccess=C), B, C] step B is never
\* begun.
C18_SuccessRouting ==
  /\ [][\A i \in Stepping :
          \A result \in {r \in StepResults(Workflows[wfCalls[i].workflow][wfCalls[i].idx + 1]) :
                           r.success} :
            StepReturnsWith(i, result) =>
              LET steps == Workflows[wfCalls[i].workflow]
                  step == steps[wfCalls[i].idx + 1]
                  expected ==
                    IF NamesStep(steps, result.nextStepId)
                    THEN IndexOfStep(steps, result.nextStepId)
                    ELSE IF NamesStep(steps, step.onSuccess)
                    THEN IndexOfStep(steps, step.onSuccess)
                    ELSE wfCalls[i].idx + 1
              IN GoesOnAt(i, expected) \/ ReturnsStopped(i)]_vars
  /\ LoopBeginsStepAtIndex
  /\ [](\A k \in 1..Len(wfStore) :
          wfStore[k].workflow = "wfSkip" => <<wfStore[k].id, "B">> \notin wfBegun)

\* Step A of [A(onSuccess=C), B, C] succeeded and step C is running.
C18_Witness ==
  \E i \in WfCallIdx :
    /\ wfCalls[i].workflow = "wfSkip"
    /\ wfCalls[i].pc = "step"
    /\ wfCalls[i].idx = 2
    /\ {<<wfCalls[i].exec, "A">>, <<wfCalls[i].exec, "C">>} \subseteq wfBegun

\* C19: when a step fails, the loop goes on at the step named by the step's
\* onFailure if that names a step of the workflow (or returns, the execution
\* having been stopped); otherwise it calls failExecution, begins no
\* further step, and the write of failExecution sets the status failed and
\* ends the loop.
C19_FailureRouting ==
  /\ [][\A i \in Stepping :
          \A result \in {r \in StepResults(Workflows[wfCalls[i].workflow][wfCalls[i].idx + 1]) :
                           ~r.success} :
            StepReturnsWith(i, result) =>
              LET steps == Workflows[wfCalls[i].workflow]
                  step == steps[wfCalls[i].idx + 1]
              IN IF NamesStep(steps, step.onFailure)
                 THEN GoesOnAt(i, IndexOfStep(steps, step.onFailure)) \/ ReturnsStopped(i)
                 ELSE /\ Len(wfCalls') = Len(wfCalls)
                      /\ wfCalls'[i].pc = "fail"]_vars
  /\ [][\A i \in WfCallIdx :
          wfCalls[i].pc \in {"fail", "failCaught"} =>
            /\ \/ /\ Len(wfCalls') >= Len(wfCalls)
                  /\ wfCalls'[i].pc \in {"fail", "failCaught"}
               \/ \E j \in WfCallIdx : wfCalls' = RemoveCall(wfCalls, j)
            /\ FailWritten(i) =>
                 /\ RowOf(wfStore', wfCalls[i].exec).status = "failed"
                 /\ wfCalls[i].exec \notin wfActive'
                 /\ wfCalls' = RemoveCall(wfCalls, i)]_vars

\* Step C failed and the run jumped to its onFailure step B, which failed
\* without a handler: the execution has status failed.
C19_Witness ==
  \E k \in 1..Len(wfStore) :
    /\ wfStore[k].workflow = "wfWired"
    /\ wfStore[k].status = "failed"
    /\ <<wfStore[k].id, "B">> \in wfBegun
    /\ last = Last("runWorkflow", wfStore[k].id, "failed")

\* C20: after stopWorkflow(executionId) has returned, and no resumeWorkflow
\* call having been made, executeStep is invoked for no step of that
\* execution.
C20_NoStepAfterStop ==
  [][\A i \in WfCallIdx :
       UpdateReturns(i) => ~(wfCalls[i].exec \in wfStopped /\ wfResumes = 0)]_vars

\* The ids of the snapshot tasks syncFromTasks has to enqueue: status
\* backlog, not queued, not the task of a running execution.
ToEnqueue(tasks) ==
  {tasks[k].id : k \in {j \in 1..Len(tasks) :
     /\ tasks[j].status = "backlog"
     /\ ~MapHas(queue, tasks[j].id)
     /\ \A e \in Range(executions) : ~(e.taskId = tasks[j].id /\ e.status = "running")}}

\* C26: syncFromTasks(tasks) enqueues exactly the snapshot tasks with status
\* backlog that are neither queued nor the task of a running execution (with
\* the task's priority, the current time and no attempts); the entries the
\* queue had and all executions stay as they were.
C26_SyncFromTasksFrame ==
  [][\A tasks \in Snapshots :
       SyncFromTasks(tasks) =>
         /\ executions' = executions
         /\ Len(queue') = Len(queue) + Cardinality(ToEnqueue(tasks))
         /\ SubSeq(queue', 1, Len(queue)) = queue
         /\ {queue'[k].id : k \in (Len(queue) + 1)..Len(queue')} = ToEnqueue(tasks)
         /\ \A k \in (Len(queue) + 1)..Len(queue') :
              /\ queue'[k].priority = TaskPriority(queue'[k].id)
              /\ queue'[k].queuedAt = now
              /\ queue'[k].attempts = 0]_vars

\* syncFromTasks has run: t1 is queued, and t2, the task of a running
\* execution, is not.
C26_Witness ==
  /\ last.op = "syncFromTasks"
  /\ MapHas(queue, "t1")
  /\ ~MapHas(queue, "t2")
  /\ \E e \in Range(executions) : e.taskId = "t2" /\ e.status = "running"

\* The ids of the executions a step deletes from the ledger.
Deleted == {e.id : e \in Range(executions)} \ {e.id : e \in Range(executions')}

\* C25: cleanup(keepLast) deletes only completed or failed executions, as
\* many as there are beyond keepLast, none of them completed later than one
\* it keeps; it returns their number, leaves every other execution as it
\* was, and deletes nothing from a ledger holding only running executions.
C25_CleanupKeepsLatest ==
  [][\A keepLast \in KeepLasts :
       Cleanup(keepLast) =>
         LET terminal == {e \in Range(executions) : e.status \in {"completed", "failed"}}
             excess == IF Cardinality(terminal) > keepLast
                       THEN Cardinality(terminal) - keepLast ELSE 0
         IN /\ executions' = SelectSeq(executions, LAMBDA e : e.id \notin Deleted)
            /\ Deleted \subseteq {e.id : e \in terminal}
            /\ Cardinality(Deleted) = excess
            /\ \A e \in terminal, f \in terminal :
                 e.id \notin Deleted /\ f.id \in Deleted => e.completedAt >= f.completedAt
            /\ last'.ret = ToString(excess)
            /\ (\A e \in Range(executions) : e.status = "running") => executions' = executions]_vars

\* cleanup has deleted one execution and kept one that was completed or
\* failed at the latest time.
C25_Witness ==
  /\ last = Last("cleanup", NoTask, "1")
  /\ \E e \in Range(executions) : e.status \in {"completed", "failed"} /\ e.completedAt = MaxTime

\* C29: of two idle active agents with the same failed count and the same
\* average task duration, selectAgent does not return the one with more
\* completed tasks.
C29_FewerCompletedPreferred ==
  \A j \in IdleActive, k \in IdleActive :
    (/\ agents[j].failed = agents[k].failed
     /\ agents[j].avgNum * agents[k].avgDen = agents[k].avgNum * agents[j].avgDen
     /\ agents[j].completed < agents[k].completed)
    => selectAgent(agents) # agents[k].id

\* C28: getExecutionByTaskId(taskId) returns an execution of the task that
\* started no earlier than any other execution of the task in the ledger.
C28_MostRecentExecution ==
  \A t \in TaskIds :
    LET i == getExecutionByTaskId(executions, t)
    IN i # 0 =>
         \A j \in 1..Len(executions) :
           executions[j].taskId = t => executions[j].startedAt <= executions[i].startedAt

\* C30: an execution whose status is completed, failed or blocked keeps that
\* status for as long as it is in the ledger.
C30_TerminalStatusFinal ==
  [][\A i \in 1..Len(executions) :
       (/\ executions[i].status \in {"completed", "failed", "blocked"}
        /\ MapHas(executions', executions[i].id))
       => MapGet(executions', executions[i].id).status = executions[i].status]_vars

StepExecutionStatus(i) ==
  LET exec == IF wfCalls[i].pc = "executeTask"
              THEN calls[CHOOSE j \in StepCalls : TRUE].exec
              ELSE wfCalls[i].exec
  IN IF MapHas(executions, exec) THEN MapGet(executions, exec).status ELSE "none"

\* C21: an agent_task step with a task id returns success exactly when the
\* execution it started is completed, failure when it is failed, success
\* with the blocked flag when it is blocked, and the timeout failure only
\* with the execution still running; without a task id it succeeds and
\* calls no executeTask.
C21_AgentStepOutcome ==
  /\ [][\A i \in WfCallIdx :
          (/\ ExecuteTaskAnswered(i) \/ PollDelayOver(i)
           /\ last'.op = "executeAgentTask"
           /\ last'.ret # "error")
          => last'.ret = CASE StepExecutionStatus(i) = "completed" -> "success"
                           [] StepExecutionStatus(i) = "failed" -> "failure"
                           [] StepExecutionStatus(i) = "blocked" -> "blocked"
                           [] OTHER -> "timeout"]_vars
  /\ [][\A a \in AgentIds \cup {NoAgent}, timeout \in StepTimeouts :
          AgentStep(NoTask, a, timeout) =>
            last' = Last("executeAgentTask", NoTask, "success") /\ calls' = calls]_vars

\* C24: the message a notify step produces holds no {{input.x}} token for a
\* key x of the input and no {{results.step.x}} token for a field x of a
\* stored step result.
C24_NotifyInterpolates ==
  [][\A i \in WfCallIdx :
       NotifyStep(i) =>
         LET sent == last'.ret.message
             context == wfCalls[i].context
         IN \A k \in 1..Len(sent) :
              /\ \A x \in DOMAIN context.input : sent[k] # Token(<<"input", x>>)
              /\ \A step \in DOMAIN context.stepResults :
                   \A x \in DOMAIN context.stepResults[step] :
                     sent[k] # Token(<<"results", step, x>>)]_vars


\* C22: a condition step reports success; its next-step id is its trueStep
\* when the check evaluates true and its falseStep when it evaluates false;
\* the run goes on at the step with that id when the workflow has one, is not
\* failed, and goes to the step's onFailure only when that is the step so
\* named; and the check 'results.test.success == true' against the step
\* results {test: {success: true}} gives the trueStep.
C22_ConditionRouting ==
  last.op = "executeCondition" =>
    LET r == last.ret
        step == r.steps[r.idx + 1]
    IN /\ r.success
       /\ ~r.failed
       /\ r.nextStepId = IF evaluateCondition(r.check, r.context)
                         THEN step.trueStep ELSE step.falseStep
       /\ NamesStep(r.steps, r.nextStepId) => r.next = IndexOfStep(r.steps, r.nextStepId)
       /\ (NamesStep(r.steps, step.onFailure) /\ step.onFailure # r.nextStepId)
            => r.next # IndexOfStep(r.steps, step.onFailure)
       /\ (/\ r.check = ScenarioCheck
           /\ r.context.stepResults.test.s.success = Value("boolean", 100, <<>>))
            => r.nextStepId = step.trueStep

\* The condition of the code-review template was evaluated against
\* {test: {success: true}} and the run goes on at the step approve.
C22_Witness ==
  /\ last.op = "executeCondition"
  /\ last.ret.check = ScenarioCheck
  /\ last.ret.context.stepResults.test.s.success = Value("boolean", 100, <<>>)
  /\ last.ret.steps = CodeReviewSteps
  /\ last.ret.nextStepId = "approve"
  /\ last.ret.next = 3

\* C23: for an expression without the suffix .exists and without
\* ' contains ' in which an operator occurs, the result of evaluateCondition
\* is the comparison by the first operator of the list ===, !==, ==, !=, >=,
\* <=, >, < that occurs in the text, of the variable named left of that
\* operator's first occurrence and the value written right of it.
C23_FirstListedOperator ==
  last.op = "executeCondition" =>
    LET check == last.ret.check
        n == Len(check)
        list == << <<"=", "=", "=">>, <<"!", "=", "=">>, <<"=", "=">>, <<"!", "=">>,
                   <<">", "=">>, <<"<", "=">>, <<">">>, <<"<">> >>
        occurs == {k \in 1..Len(list) : IndexOf(check, list[k]) # 0}
        op == list[CHOOSE k \in occurs : \A j \in occurs : k <= j]
        parts == Split(check, op)
    IN (/\ ~(n >= 2 /\ SubSeq(check, n - 1, n) = <<".", "exists">>)
        /\ IndexOf(check, <<"contains">>) = 0
        /\ occurs # {})
         => last.ret.result = Compare(op, resolveVariable(parts[1], last.ret.context),
                                      parseValue(parts[2]))

\* 'a<!=' was evaluated: < occurs before != in the text, the comparison was
\* by !=, of the undefined variable 'a<' with the empty text, and is true.
C23_Witness ==
  /\ last.op = "executeCondition"
  /\ last.ret.check = <<"a", "<", "!", "=">>
  /\ last.ret.result

\* C31: when executeTask throws out of a call (the call ends at getTask, at
\* the agent lookup or at assignTask), the execution the call started is not
\* left running in the ledger and the agent the call chose is not left
\* working on the call's task.
C31_ThrowLeavesNoTrace ==
  [][\A i \in CallIdx :
       (/\ calls[i].pc \in {"getTask", "assign"}
        /\ calls' = RemoveCall(calls, i))
       => /\ \A e \in Range(executions') :
               ~(e.id = calls[i].exec /\ e.status = "running")
          /\ \A k \in 1..Len(agents') :
               ~(/\ agents'[k].id = calls[i].agent
                 /\ agents'[k].status = "working"
                 /\ agents'[k].currentTask = calls[i].task)]_vars

\* C32: every agent has at most one running execution.
C32_OneRunningPerAgent ==
  \A a \in AgentIds :
    Cardinality({k \in 1..Len(executions) :
                   executions[k].agentId = a /\ executions[k].status = "running"}) <= 1

\* C33: registerAgent for an id that is already in the pool leaves that
\* agent's status, current task and metrics as they were.
C33_ReregistrationKeepsRuntime ==
  [][\A a \in AgentIds :
       (/\ MapHas(agents, a)
        /\ \E active \in BOOLEAN : RegisterAgent(a, active))
       => LET old == MapGet(agents, a)
              new == MapGet(agents', a)
          IN /\ new.status = old.status
             /\ new.currentTask = old.currentTask
             /\ new.completed = old.completed
             /\ new.failed = old.failed
             /\ new.blocked = old.blocked
             /\ new.avgNum * old.avgDen = old.avgNum * new.avgDen]_vars

C35_WorkingEnds ==
  \A a \in AgentIds :
    (/\ MapHas(agents, a)
     /\ MapGet(agents, a).status = "working"
     /\ \E i \in CallIdx : calls[i].agent = a /\ calls[i].pc = "msgStart")
      ~> ~(MapHas(agents, a) /\ MapGet(agents, a).status = "working")

\* C37: no two run loops are executing a step of the same workflow
\* execution at the same time.
C37_OneLoopPerExecution ==
  \A i \in WfCallIdx, j \in WfCallIdx :
    (/\ i # j
     /\ wfCalls[i].pc = "step"
     /\ wfCalls[j].pc = "step")
    => wfCalls[i].exec # wfCalls[j].exec

\* C38: once stopWorkflow has persisted paused for an execution and as long
\* as resumeWorkflow has not been called, the stopped run does not write
\* completed or failed over it when its in-flight step has returned.
C38_PausedUntilResumed ==
  [][\A i \in WfCallIdx :
       (/\ wfCalls[i].pc \in {"complete", "fail"}
        /\ CompleteWritten(i) \/ FailWritten(i)
        /\ wfCalls[i].exec \in wfStopped
        /\ wfResumes = 0)
       => RowOf(wfStore', wfCalls[i].exec).status = RowOf(wfStore, wfCalls[i].exec).status]_vars

\* C39: every started run whose steps each return eventually ends: no run
\* loop of the execution is left, whatever the steps' onSuccess, onFailure,
\* trueStep and falseStep name.
C39_RunEnds ==
  \A e \in Range(WorkflowExecIds) :
    (\E i \in WfCallIdx : wfCalls[i].exec = e /\ wfCalls[i].pc \in {"update", "step"})
      ~> ~(\E i \in WfCallIdx :
             /\ wfCalls[i].exec = e
             /\ wfCalls[i].pc \in {"update", "step", "complete", "fail", "failCaught"})

\* C40: in a run of the code-review template in which analyze and test have
\* succeeded, notify_failure is not begun, and the run does not complete
\* without approve having been executed.
C40_ReviewApproves ==
  [][\A i \in WfCallIdx :
       {"analyze", "test"} \subseteq wfCalls[i].succeeded
       => /\ ReviewStepBegun(i) => CodeReviewSteps[wfCalls[i].idx + 1].id # "notify_failure"
          /\ CompleteWritten(i) => <<wfCalls[i].exec, "approve">> \in wfBegun]_vars

====
